---------------------------- MODULE Spec2Model ----------------------------
(***************************************************************************)
(* Model of the flowchart editor's Mermaid export: convertToMermaid and    *)
(* validateFlowchartForMermaid with their helpers                          *)
(* (src/src/lib/flowchartStorage.ts, lines 455-793), and of the editor     *)
(* that holds the graph (src/src/components/flowchart/FlowchartEditor.tsx) *)
(* with its templates and its storage: saveFlowchartData,                  *)
(* loadFlowchartData and autoSaveFlowchartData with its one timer          *)
(* (flowchartStorage.ts, lines 1-454).                                     *)
(*                                                                         *)
(* Text is a sequence of characters; a character is a one-character        *)
(* string (the bullet U+2022 is the atom "U+2022").  A JavaScript object   *)
(* with optional fields is a record whose DOMAIN holds the fields present. *)
(***************************************************************************)
EXTENDS Integers, Sequences, FiniteSets, TLC

VARIABLES
    nodes,            \* the node sequence handed to the export functions
    edges,            \* the edge sequence handed to the export functions
    metadata,         \* { title?, description? }
    options,          \* MermaidConversionOptions
    converted,        \* convertToMermaid has returned for this snapshot
    mermaidCode,      \* the text convertToMermaid returned last
    emitted,          \* the pieces appended to mermaidCode, in document order
    nodeIdMap,        \* convertToMermaid's local Map after its last call
    nodeDefinitions,  \* convertToMermaid's local Set (insertion order)
    nodeTrace,        \* the locals of the node loop, one entry per node
    validated,        \* validateFlowchartForMermaid has returned
    validation,       \* the report validateFlowchartForMermaid returned last
    measured,         \* the label the validator measured, one per node
    earlier,          \* one earlier convertToMermaid call: its inputs and text
    preview,          \* what generateMermaidPreview returned at the last render
    nodeId,           \* the editor's nodeId.current
    autoSaveTimeout,  \* the pending autosave timer and what it will save
    storage,          \* the text under STORAGE_KEY in localStorage
    currentFlowchartId, \* the editor's currentFlowchartId, NoId for undefined
    saveStatus,       \* the editor's saveStatus
    now,              \* the clock, in seconds
    calls,            \* the autoSaveFlowchartData calls: timer and promise
    writes,           \* the localStorage.setItem calls of the autosave timers
    returned          \* how the last saveFlowchartData / loadFlowchartData ended

vars == <<nodes, edges, metadata, options, converted, mermaidCode, emitted,
          nodeIdMap, nodeDefinitions, nodeTrace, validated, validation,
          measured, earlier, preview, nodeId, autoSaveTimeout, storage,
          currentFlowchartId, saveStatus, now, calls, writes, returned>>

inputVars == <<nodes, edges, metadata, options>>
convertVars == <<converted, mermaidCode, emitted, nodeIdMap, nodeDefinitions,
                 nodeTrace>>
validateVars == <<validated, validation, measured>>
sessionVars == <<currentFlowchartId, saveStatus>>
moduleVars == <<now, calls, writes, returned>>
editorVars == <<nodeId, autoSaveTimeout, storage, sessionVars, moduleVars>>
exportVars == <<metadata, options, convertVars, validateVars, earlier, preview>>

---------------------------------------------------------------------------
(* Characters and text literals *)

Lower == {"a", "b", "c", "d", "e", "f", "g", "h", "i", "j", "k", "l", "m",
          "n", "o", "p", "q", "r", "s", "t", "u", "v", "w", "x", "y", "z"}
Upper == {"A", "B", "C", "D", "E", "F", "G", "H", "I", "J", "K", "L", "M",
          "N", "O", "P", "Q", "R", "S", "T", "U", "V", "W", "X", "Y", "Z"}
DigitChars == <<"0", "1", "2", "3", "4", "5", "6", "7", "8", "9">>
Digits == {DigitChars[i] : i \in 1..10}
Letters == Lower \cup Upper
\* [a-zA-Z0-9_]
WordChars == Letters \cup Digits \cup {"_"}
\* what String.prototype.trim removes, among the characters of the model
WhiteSpace == {" ", "\t", "\n", "\r"}
Bullet == "U+2022"
NL == <<"\n">>

TxtFlowchart == <<"f", "l", "o", "w", "c", "h", "a", "r", "t", " ">>
TxtFrontMatterFence == <<"-", "-", "-">>
TxtTitleKey == <<"t", "i", "t", "l", "e", ":", " ">>
TxtEmptyFlowchart == <<" ", " ", " ", " ", "%", "%", " ", "E", "m", "p", "t", "y", " ", "f", "l", "o", "w", "c", "h", "a", "r", "t">>
TxtIndent == <<" ", " ", " ", " ">>
TxtCommentOpen == <<" ", " ", " ", " ", "%", "%", " ">>
TxtThemeOpen == <<"%", "%", "{", "i", "n", "i", "t", ":", " ", "{", "'", "t", "h", "e", "m", "e", "'", ":", "'">>
TxtThemeClose == <<"'", "}", "}", "%", "%">>
TxtNodePrefix == <<"n", "o", "d", "e", "_">>
TxtQuot == <<"#", "q", "u", "o", "t", ";">>
TxtApos == <<"#", "a", "p", "o", "s", ";">>
TxtBr == <<"<", "b", "r", "/", ">">>
TxtStart == <<"S", "t", "a", "r", "t">>
TxtEnd == <<"E", "n", "d">>
TxtProcess == <<"P", "r", "o", "c", "e", "s", "s">>
TxtDecision == <<"D", "e", "c", "i", "s", "i", "o", "n", "?">>
TxtNode == <<"N", "o", "d", "e">>
TxtYes == <<"Y", "e", "s">>
TxtNo == <<"N", "o">>
TxtArrowLabelOpen == <<" ", "-", "-", ">", "|">>
TxtArrowLabelClose == <<"|", " ">>
TxtArrow == <<" ", "-", "-", ">", " ">>
TxtTD == <<"T", "D">>
TxtFlowchartIsEmpty == <<"F", "l", "o", "w", "c", "h", "a", "r", "t", " ", "i", "s", " ", "e", "m", "p", "t", "y">>
TxtDisconnected == <<" ", "d", "i", "s", "c", "o", "n", "n", "e", "c", "t", "e", "d", " ", "n", "o", "d", "e", "(", "s", ")", " ", "f", "o", "u", "n", "d">>
TxtNodeQuote == <<"N", "o", "d", "e", " ", "\"">>
TxtHasLongLabel == <<"\"", " ", "h", "a", "s", " ", "a", " ", "v", "e", "r", "y", " ", "l", "o", "n", "g", " ", "l", "a", "b", "e", "l", " ", "(">>
TxtCharacters == <<" ", "c", "h", "a", "r", "a", "c", "t", "e", "r", "s", ")">>

---------------------------------------------------------------------------
(* JavaScript helpers *)

Range(s) == {s[i] : i \in 1..Len(s)}

\* obj?.field, read as a condition: the field is present and not ''
Truthy(obj, field) == field \in DOMAIN obj /\ obj[field] # <<>>

\* String.prototype.replace(/c/g, r) for a one-character pattern
RECURSIVE ReplaceAll(_, _, _)
ReplaceAll(s, c, r) ==
    IF s = <<>> THEN <<>>
    ELSE (IF Head(s) = c THEN r ELSE <<Head(s)>>) \o ReplaceAll(Tail(s), c, r)

\* String.prototype.trim
RECURSIVE TrimStart(_)
TrimStart(s) ==
    IF s # <<>> /\ Head(s) \in WhiteSpace THEN TrimStart(Tail(s)) ELSE s

RECURSIVE TrimEnd(_)
TrimEnd(s) ==
    IF s # <<>> /\ s[Len(s)] \in WhiteSpace
    THEN TrimEnd(SubSeq(s, 1, Len(s) - 1))
    ELSE s

Trim(s) == TrimEnd(TrimStart(s))

\* `${n}` for a non-negative integer
RECURSIVE NumberToString(_)
NumberToString(n) ==
    IF n < 10 THEN <<DigitChars[n + 1]>>
    ELSE NumberToString(n \div 10) \o <<DigitChars[(n % 10) + 1]>>

\* Map.prototype.set
MapSet(m, k, v) == [x \in DOMAIN m \cup {k} |-> IF x = k THEN v ELSE m[x]]

\* Array.prototype.push: a value already held is held again
ArrayPush(s, x) == Append(s, x)

\* Set.prototype.add on a Set that iterates in insertion order
SetAdd(s, x) == IF x \in Range(s) THEN s ELSE Append(s, x)

\* Array.prototype.find(node => node.id === id): the index, 0 when none
FindNode(ns, id) ==
    IF \E i \in 1..Len(ns) : ns[i].id = id
    THEN CHOOSE i \in 1..Len(ns) :
            ns[i].id = id /\ \A j \in 1..(i - 1) : ns[j].id # id
    ELSE 0

---------------------------------------------------------------------------
(* The helpers of convertToMermaid *)

\* as sanitizeNodeId, without the node_ prefix
sanitizeNodeIdNoPrefix(id) ==
    [i \in 1..Len(id) |-> IF id[i] \in WordChars THEN id[i] ELSE "_"]

sanitizeNodeId(id) ==
    LET sanitized == [i \in 1..Len(id) |->
                         IF id[i] \in WordChars THEN id[i] ELSE "_"]
    IN  IF sanitized # <<>> /\ sanitized[1] \in Letters
        THEN sanitized
        ELSE TxtNodePrefix \o sanitized

\* case 'startNode': return 'Start', data.nodeType is not read
getNodeLabelByTypeOnly(node) ==
    IF Truthy(node.data, "label") THEN node.data.label
    ELSE CASE node.type \in {"startNode"} -> TxtStart
           [] node.type = "endNode" -> TxtEnd
           [] node.type = "processNode" -> TxtProcess
           [] node.type = "decisionNode" -> TxtDecision
           [] node.type = "connectorNode" -> <<Bullet>>
           [] OTHER -> TxtNode

getNodeLabel(node) ==
    LET data == node.data
    IN  IF Truthy(data, "label") THEN data.label
        ELSE CASE node.type = "startNode" ->
                    IF "nodeType" \in DOMAIN data /\ data.nodeType = "end"
                    THEN TxtEnd ELSE TxtStart
               [] node.type = "endNode" -> TxtEnd
               [] node.type = "processNode" -> TxtProcess
               [] node.type = "decisionNode" -> TxtDecision
               [] node.type = "connectorNode" ->
                    IF Truthy(data, "label") THEN data.label ELSE <<Bullet>>
               [] OTHER -> TxtNode

\* as escapeLabel, without the replacement of the single quote
escapeLabelNoApos(label) ==
    Trim(ReplaceAll(ReplaceAll(ReplaceAll(label,
        "\"", TxtQuot), "\n", TxtBr), "\r", <<>>))

escapeLabel(label) ==
    Trim(ReplaceAll(ReplaceAll(ReplaceAll(ReplaceAll(label,
        "\"", TxtQuot), "'", TxtApos), "\n", TxtBr), "\r", <<>>))

\* MERMAID_NODE_SHAPES
ShapeStartNode(label) == <<"(", "[">> \o label \o <<"]", ")">>
ShapeEndNode(label) == <<"(", "[">> \o label \o <<"]", ")">>
ShapeProcessNode(label) == <<"[">> \o label \o <<"]">>
ShapeDecisionNode(label) == <<"{">> \o label \o <<"}">>
\* connectorNode: (label) => `((${label}))`, without the bullet
ShapeConnectorNodeNoBullet(label) == <<"(", "(">> \o label \o <<")", ")">>

ShapeConnectorNode(label) ==
    <<"(", "(">> \o (IF label # <<>> THEN label ELSE <<Bullet>>) \o <<")", ")">>

getMermaidShape(nodeType, label) ==
    LET escapedLabel == escapeLabel(label)
    IN  CASE nodeType \in {"startNode", "endNode"} -> ShapeStartNode(escapedLabel)
          [] nodeType = "processNode" -> ShapeProcessNode(escapedLabel)
          [] nodeType = "decisionNode" -> ShapeDecisionNode(escapedLabel)
          [] nodeType = "connectorNode" -> ShapeConnectorNode(escapedLabel)
          [] OTHER -> <<"[">> \o escapedLabel \o <<"]">>

\* the label, or <<>> for the null the code returns
getDecisionEdgeLabel(edge, sourceNode) ==
    LET data == sourceNode.data
    IN  IF "sourceHandle" \in DOMAIN edge /\ edge.sourceHandle = "decision-yes"
        THEN (IF Truthy(data, "yesLabel") THEN data.yesLabel ELSE TxtYes)
        ELSE IF "sourceHandle" \in DOMAIN edge /\ edge.sourceHandle = "decision-no"
        THEN (IF Truthy(data, "noLabel") THEN data.noLabel ELSE TxtNo)
        ELSE <<>>

\* as createMermaidConnection, the edge's own label tried first
createMermaidConnectionOwnLabelFirst(edge, sourceId, targetId, ns) ==
    LET found == FindNode(ns, edge.source)
        edgeLabel == IF found # 0 /\ ns[found].type = "decisionNode"
                     THEN getDecisionEdgeLabel(edge, ns[found])
                     ELSE <<>>
    IN  IF Truthy(edge, "label")
        THEN sourceId \o TxtArrowLabelOpen \o escapeLabel(edge.label)
                 \o TxtArrowLabelClose \o targetId
        ELSE IF edgeLabel # <<>>
        THEN sourceId \o TxtArrowLabelOpen \o edgeLabel \o TxtArrowLabelClose \o targetId
        ELSE sourceId \o TxtArrow \o targetId

createMermaidConnection(edge, sourceId, targetId, ns) ==
    LET found == FindNode(ns, edge.source)
        edgeLabel == IF found # 0 /\ ns[found].type = "decisionNode"
                     THEN getDecisionEdgeLabel(edge, ns[found])
                     ELSE <<>>
    IN  IF edgeLabel # <<>>
        THEN sourceId \o TxtArrowLabelOpen \o edgeLabel \o TxtArrowLabelClose \o targetId
        ELSE IF Truthy(edge, "label")
        THEN sourceId \o TxtArrowLabelOpen \o escapeLabel(edge.label)
                 \o TxtArrowLabelClose \o targetId
        ELSE sourceId \o TxtArrow \o targetId

---------------------------------------------------------------------------
(* convertToMermaid *)

\* a Map kept at module level: the entries of the last call are still in it
LeakedNodeIdMap == nodeIdMap

\* const nodeIdMap = new Map<string, string>()
FreshNodeIdMap == [id \in {} |-> <<>>]

\* a Set kept at module level: the definitions of the last call are still
\* in it
LeakedNodeDefinitions == nodeDefinitions

\* const nodeDefinitions = new Set<string>()
FreshNodeDefinitions == <<>>

\* nodeIdMap.get(id), read as a condition
MapHas(m, id) == id \in DOMAIN m /\ m[id] # <<>>

\* the destructuring defaults of the options
OptIncludeTitle(opts) ==
    IF "includeTitle" \in DOMAIN opts THEN opts.includeTitle ELSE TRUE
\* includeDescription is not read: the description is always wanted
OptIncludeDescriptionIgnored(opts) == TRUE

OptIncludeDescription(opts) ==
    IF "includeDescription" \in DOMAIN opts THEN opts.includeDescription ELSE TRUE
OptDirection(opts) ==
    IF "direction" \in DOMAIN opts THEN opts.direction ELSE TxtTD

\* the locals of one pass of nodes.forEach
NodeLoopLocals(node) ==
    LET sanitizedId == sanitizeNodeId(node.id)
        nodeLabel == getNodeLabel(node)
        mermaidShape == getMermaidShape(node.type, nodeLabel)
    IN  [sanitizedId |-> sanitizedId,
         nodeLabel |-> nodeLabel,
         mermaidShape |-> mermaidShape,
         definition |-> TxtIndent \o sanitizedId \o mermaidShape]

\* nodes.forEach: nodeIdMap.set(node.id, sanitizedId)
RECURSIVE CollectNodeIds(_, _)
CollectNodeIds(m, ns) ==
    IF ns = <<>> THEN m
    ELSE CollectNodeIds(MapSet(m, Head(ns).id, sanitizeNodeId(Head(ns).id)),
                        Tail(ns))

\* nodes.forEach: nodeDefinitions.add(...)
RECURSIVE CollectNodeDefinitions(_, _)
CollectNodeDefinitions(defs, ns) ==
    IF ns = <<>> THEN defs
    ELSE CollectNodeDefinitions(SetAdd(defs, NodeLoopLocals(Head(ns)).definition),
                                Tail(ns))

\* nodeIdMap.get(id) as a template literal renders it
TxtUndefined == <<"u", "n", "d", "e", "f", "i", "n", "e", "d">>
MapGet(m, id) == IF id \in DOMAIN m THEN m[id] ELSE TxtUndefined

\* if (sourceId): the target is not looked at
EdgeResolvesSourceOnly(edge, m) == MapHas(m, edge.source)

\* if (sourceId && targetId)
EdgeResolves(edge, m) == MapHas(m, edge.source) /\ MapHas(m, edge.target)

\* no early return for an empty node sequence
IsEmptyFlowchartNever(ns) == FALSE

\* if (nodes.length === 0)
IsEmptyFlowchart(ns) == Len(ns) = 0

\* the connections are collected in a Set, as the node definitions are: a
\* connection that was appended before is not appended again
RECURSIVE EdgePiecesOnce(_, _, _)
EdgePiecesOnce(es, m, ns) ==
    IF es = <<>> THEN <<>>
    ELSE LET before == EdgePiecesOnce(SubSeq(es, 1, Len(es) - 1), m, ns)
             edge == es[Len(es)]
             piece == [sec |-> "edge",
                       text |-> TxtIndent
                                \o createMermaidConnection(edge,
                                                           MapGet(m, edge.source),
                                                           MapGet(m, edge.target),
                                                           ns)
                                \o NL]
         IN  IF EdgeResolves(edge, m) /\ piece \notin Range(before)
             THEN Append(before, piece)
             ELSE before

\* edges.forEach: the pieces appended for the edges, in edge order
RECURSIVE EdgePieces(_, _, _)
EdgePieces(es, m, ns) ==
    IF es = <<>> THEN <<>>
    ELSE (IF EdgeResolves(Head(es), m)
          THEN <<[sec |-> "edge",
                  text |-> TxtIndent
                           \o createMermaidConnection(Head(es),
                                                      MapGet(m, Head(es).source),
                                                      MapGet(m, Head(es).target),
                                                      ns)
                           \o NL]>>
          ELSE <<>>)
         \o EdgePieces(Tail(es), m, ns)

\* if (edges.length > 1): one edge alone opens no edge section
HasEdgesSeveral(es) == Len(es) > 1

\* if (edges.length > 0)
HasEdges(es) == Len(es) > 0

RECURSIVE Flatten(_)
Flatten(pieces) ==
    IF pieces = <<>> THEN <<>> ELSE Head(pieces).text \o Flatten(Tail(pieces))

\* The call's result: the text returned (code), the pieces it is made of,
\* and the locals as the call leaves them.
convertToMermaid(ns, es, md, opts) ==
    LET header == <<[sec |-> "header",
                     text |-> TxtFlowchart \o OptDirection(opts) \o NL]>>
        title == IF OptIncludeTitle(opts) /\ Truthy(md, "title")
                 THEN <<[sec |-> "title",
                         text |-> TxtFrontMatterFence \o NL \o TxtTitleKey
                                  \o md.title \o NL \o TxtFrontMatterFence \o NL]>>
                 ELSE <<>>
        idMap == CollectNodeIds(FreshNodeIdMap, ns)
        defs == CollectNodeDefinitions(FreshNodeDefinitions, ns)
        nodePieces == [i \in 1..Len(defs) |->
                          [sec |-> "node", text |-> defs[i] \o NL]]
        edgePieces == IF HasEdges(es)
                      THEN <<[sec |-> "separator", text |-> NL]>>
                           \o EdgePieces(es, idMap, ns)
                      ELSE <<>>
        description == IF OptIncludeDescription(opts) /\ Truthy(md, "description")
                       THEN <<[sec |-> "description",
                               text |-> NL \o TxtCommentOpen \o md.description \o NL]>>
                       ELSE <<>>
        theme == IF Truthy(opts, "theme")
                 THEN <<[sec |-> "theme",
                         text |-> NL \o TxtThemeOpen \o opts.theme
                                  \o TxtThemeClose \o NL]>>
                 ELSE <<>>
        pieces == IF IsEmptyFlowchart(ns)
                  THEN title \o header
                       \o <<[sec |-> "empty", text |-> TxtEmptyFlowchart \o NL]>>
                  ELSE title \o header \o nodePieces \o edgePieces
                       \o description \o theme
    IN  [code |-> Flatten(pieces),
         pieces |-> pieces,
         nodeIdMap |-> IF IsEmptyFlowchart(ns) THEN FreshNodeIdMap ELSE idMap,
         nodeDefinitions |-> IF IsEmptyFlowchart(ns) THEN FreshNodeDefinitions
                             ELSE defs,
         nodeTrace |-> IF IsEmptyFlowchart(ns) THEN <<>>
                       ELSE [i \in 1..Len(ns) |-> NodeLoopLocals(ns[i])]]

---------------------------------------------------------------------------
(* validateFlowchartForMermaid *)

\* if (label.length > 50)
LongLabelLimit == 50

\* const label = node.data.label || '': no fallback by node type
MeasuredLabelUnresolved(node) ==
    IF Truthy(node.data, "label") THEN node.data.label ELSE <<>>

\* const label = getNodeLabel(node)
MeasuredLabel(node) == getNodeLabel(node)

\* if (label.length >= 50)
IsLongLabelAtLimit(label) == Len(label) >= LongLabelLimit

IsLongLabel(label) == Len(label) > LongLabelLimit

\* only connectedNodeIds.add(edge.source)
ConnectedNodeIdsSourcesOnly(es) == {es[i].source : i \in 1..Len(es)}

\* an edge from a node to itself connects nothing
ConnectedNodeIdsNoSelfLoops(es) ==
    {es[i].source : i \in {j \in 1..Len(es) : es[j].source # es[j].target}}
    \cup {es[i].target : i \in {j \in 1..Len(es) : es[j].source # es[j].target}}

ConnectedNodeIds(es) ==
    {es[i].source : i \in 1..Len(es)} \cup {es[i].target : i \in 1..Len(es)}

\* nodes.filter(node => !connectedNodeIds.has(node.id)).length
DisconnectedCount(ns, es) ==
    Cardinality({i \in 1..Len(ns) : ns[i].id \notin ConnectedNodeIds(es)})

EmptyWarning == TxtFlowchartIsEmpty
DisconnectedWarning(k) == NumberToString(k) \o TxtDisconnected
LongLabelWarning(id, label) ==
    TxtNodeQuote \o id \o TxtHasLongLabel \o NumberToString(Len(label))
        \o TxtCharacters

\* warnings.unshift(...): the warning of a later node before that of an
\* earlier one
RECURSIVE LongLabelWarningsReversed(_)
LongLabelWarningsReversed(ns) ==
    IF ns = <<>> THEN <<>>
    ELSE LongLabelWarningsReversed(Tail(ns))
         \o (IF IsLongLabel(MeasuredLabel(Head(ns)))
             THEN <<LongLabelWarning(Head(ns).id, MeasuredLabel(Head(ns)))>>
             ELSE <<>>)

\* nodes.forEach: one warning for each node with a long label, in node order
RECURSIVE LongLabelWarnings(_)
LongLabelWarnings(ns) ==
    IF ns = <<>> THEN <<>>
    ELSE (IF IsLongLabel(MeasuredLabel(Head(ns)))
          THEN <<LongLabelWarning(Head(ns).id, MeasuredLabel(Head(ns)))>>
          ELSE <<>>)
         \o LongLabelWarnings(Tail(ns))

\* isValid: errors.length === 0 && warnings.length === 0
ValidationResultNoWarnings(warnings, errors) ==
    [isValid |-> Len(errors) = 0 /\ Len(warnings) = 0,
     warnings |-> warnings,
     errors |-> errors]

\* return { isValid: errors.length === 0, warnings, errors }
ValidationResult(warnings, errors) ==
    [isValid |-> Len(errors) = 0,
     warnings |-> warnings,
     errors |-> errors]

validateFlowchartForMermaid(ns, es) ==
    LET errors == <<>>
        warnings ==
            (IF Len(ns) = 0 THEN <<EmptyWarning>> ELSE <<>>)
            \o (IF DisconnectedCount(ns, es) > 0
                THEN <<DisconnectedWarning(DisconnectedCount(ns, es))>>
                ELSE <<>>)
            \o LongLabelWarnings(ns)
        result == ValidationResult(warnings, errors)
    IN  [isValid |-> result.isValid,
         warnings |-> result.warnings,
         errors |-> result.errors,
         measured |-> [i \in 1..Len(ns) |-> MeasuredLabel(ns[i])]]

---------------------------------------------------------------------------
(* generateMermaidPreview *)

\* String.prototype.split('\n'): the pieces between the line feeds; a text
\* that ends with a line feed has an empty last piece
RECURSIVE Split(_, _)
Split(text, sep) ==
    IF \A k \in 1..Len(text) : text[k] # sep THEN <<text>>
    ELSE LET k == CHOOSE k \in 1..Len(text) :
                      text[k] = sep /\ \A j \in 1..(k - 1) : text[j] # sep
         IN  <<SubSeq(text, 1, k - 1)>> \o Split(SubSeq(text, k + 1, Len(text)), sep)

generateMermaidPreview(code) ==
    [code |-> code,
     lineCount |-> Len(Split(code, "\n")),
     characterCount |-> Len(code)]

---------------------------------------------------------------------------
(* The snapshots the export functions are called with *)

\* Bounds of the model
MaxNodes == 3
MaxEdges == 2
MaxLabelLen == 2
MaxIdLen == 2

StringsUpTo(alphabet, n) == UNION {[1..k -> alphabet] : k \in 0..n}
SeqsUpTo(S, n) == UNION {[1..k -> S] : k \in 0..n}
Repeat(c, n) == [i \in 1..n |-> c]

NoData == [f \in {} |-> <<>>]
NoNodeIds == [id \in {} |-> <<>>]
NoCall == [called |-> FALSE]

\* A number the editor counts with: finite, or Math.max() of nothing.
Finite(n) == [infinite |-> FALSE, value |-> n]
NegInfinity == [infinite |-> TRUE, value |-> 0]
\* let autoSaveTimeout = null; localStorage without the record
NoTimer == [pending |-> FALSE]
NoRecord == [present |-> FALSE]
\* an id that is undefined or '': both are falsy
NoId == <<>>

Node(id, type, data) == [id |-> id, type |-> type, data |-> data]
Edge(source, target) == [source |-> source, target |-> target]

NodeTypes == {"startNode", "endNode", "processNode", "decisionNode",
              "connectorNode", "customNode"}

IdA == <<"a">>
IdB == <<"b">>
IdC == <<"c">>
IdD == <<"d", "-", "1">>
IdMissing == <<"x">>
IdStart0 == <<"s", "t", "a", "r", "t", "-", "0">>
Id0node == <<"0", "n", "o", "d", "e">>

\* Node identifiers: every string of at most MaxIdLen characters over a
\* letter, a capital, a digit, the underscore, a hyphen, a blank and the
\* bullet, and the two identifiers the specification names.
IdAlphabet == {"a", "Z", "0", "_", "-", " ", Bullet}
IdUniverse == StringsUpTo(IdAlphabet, MaxIdLen) \cup {IdStart0, Id0node}

\* Labels: every string of at most MaxLabelLen characters over a letter,
\* the two quotes, newline, carriage return and blank, and labels of
\* LongLabelLimit and LongLabelLimit + 1 characters.
LabelAlphabet == {"a", "\"", "'", "\n", "\r", " "}
LabelAtLimit == Repeat("a", LongLabelLimit)
LabelOverLimit == Repeat("a", LongLabelLimit + 1)
LabelQuotesNewline == <<"a", "\"", "b", "'", "c", "\n", "d">>
LabelUniverse ==
    StringsUpTo(LabelAlphabet, MaxLabelLen)
    \cup {LabelAtLimit, LabelOverLimit, LabelQuotesNewline}
LabelData ==
    {NoData, [nodeType |-> "end"], [nodeType |-> "start"]}
    \cup {[label |-> l] : l \in LabelUniverse}

\* One node of every type with every identifier (SpecIds) or every label
\* (SpecLabels).
IdSnapshots == {<<Node(id, "processNode", NoData)>> : id \in IdUniverse}
LabelSnapshots == {<<Node(IdA, t, d)>> : t \in NodeTypes, d \in LabelData}

\* Graphs of at most MaxNodes nodes named a, b, c and at most MaxEdges edges
\* among a, b, c and the identifier x of no node.
GraphNodes == {Node(id, "processNode", NoData) : id \in {IdA, IdB, IdC}}
GraphEdges == {Edge(IdA, IdB), Edge(IdB, IdC), Edge(IdA, IdA),
               Edge(IdA, IdMissing), Edge(IdMissing, IdB),
               Edge(IdMissing, IdMissing)}

\* Nodes with a label at or over the limit, or none (SpecLong).
LongNodes == {Node(id, "processNode", d) :
                 id \in {IdA, IdB},
                 d \in {NoData, [label |-> LabelAtLimit], [label |-> LabelOverLimit]}}
LongEdges == {<<>>, <<Edge(IdA, IdB)>>}

\* Nodes whose definition lines collide: the identifiers "a-" and "a_" are
\* sanitized to the same "a_", and a node may stand in the sequence more
\* than once (SpecNodeLines).
IdADash == <<"a", "-">>
IdAUnder == <<"a", "_">>
LineNodes == {Node(id, t, NoData) :
                 id \in {IdA, IdADash, IdAUnder},
                 t \in {"processNode", "decisionNode"}}

\* One edge out of a decision or a process node, with every source handle
\* and label, the decision node with every yesLabel and noLabel (SpecEdgeLabels).
BranchLabels == {<<>>, <<"P">>, <<"\"">>, <<"'", "\n">>}
DecisionData ==
    {NoData}
    \cup {[yesLabel |-> y, noLabel |-> n] : y, n \in BranchLabels}
EdgeHandles == {"decision-yes", "decision-no", "other"}
EdgeLabels == {<<>>, <<"L">>, <<"\"">>, <<" ">>, <<"\n", "'">>}
LabelledEdges ==
    {Edge(s, t) : s \in {IdD, IdA, IdMissing}, t \in {IdA, IdMissing}}
    \cup {[source |-> s, target |-> IdA, sourceHandle |-> h] :
             s \in {IdD, IdA}, h \in EdgeHandles}
    \cup {[source |-> s, target |-> IdA, label |-> l] :
             s \in {IdD, IdA}, l \in EdgeLabels}
    \cup {[source |-> s, target |-> IdA, sourceHandle |-> h, label |-> l] :
             s \in {IdD, IdA}, h \in EdgeHandles, l \in EdgeLabels}
DecisionSnapshots ==
    {<<Node(IdD, "decisionNode", d), Node(IdA, "processNode", NoData)>> :
        d \in DecisionData}

\* Metadata and options (SpecDocument).
TitleT == <<"T">>
DescriptionD == <<"D">>
ThemeK == <<"k">>
TxtLR == <<"L", "R">>
MetadataUniverse ==
    {NoData}
    \cup {[title |-> t] : t \in {<<>>, TitleT}}
    \cup {[description |-> d] : d \in {<<>>, DescriptionD}}
    \cup {[title |-> t, description |-> d] :
             t \in {<<>>, TitleT}, d \in {<<>>, DescriptionD}}
OptionsUniverse ==
    {NoData, [includeTitle |-> FALSE], [includeDescription |-> FALSE],
     [includeTitle |-> TRUE, includeDescription |-> TRUE, direction |-> TxtLR],
     [direction |-> TxtLR, theme |-> ThemeK], [theme |-> <<>>],
     [includeTitle |-> FALSE, includeDescription |-> FALSE, theme |-> ThemeK]}
DocumentNodes == {<<>>, <<Node(IdA, "processNode", NoData)>>}
DocumentEdges == {<<>>, <<Edge(IdA, IdA)>>, <<Edge(IdMissing, IdA)>>}

\* The snapshots of a dialog that is regenerated after edits (SpecRepeat).
RepeatNodes == {<<>>, <<Node(IdA, "processNode", NoData)>>,
                <<Node(IdB, "processNode", NoData)>>,
                <<Node(IdA, "processNode", NoData), Node(IdB, "processNode", NoData)>>}
RepeatEdges == {<<>>, <<Edge(IdA, IdB)>>}
RepeatMetadata == {NoData, [title |-> TitleT]}
RepeatOptions == {NoData, [direction |-> TxtLR]}

---------------------------------------------------------------------------
(* State machine *)

NothingRun ==
    /\ converted = FALSE
    /\ mermaidCode = <<>>
    /\ emitted = <<>>
    /\ nodeIdMap = NoNodeIds
    /\ nodeDefinitions = <<>>
    /\ nodeTrace = <<>>
    /\ validated = FALSE
    /\ validation = [isValid |-> TRUE, warnings |-> <<>>, errors |-> <<>>]
    /\ measured = <<>>
    /\ earlier = NoCall
    /\ preview = generateMermaidPreview(<<>>)
    /\ nodeId = Finite(0)
    /\ autoSaveTimeout = NoTimer
    /\ currentFlowchartId = NoId
    /\ saveStatus = "saved"
    /\ now = 0
    /\ calls = <<>>
    /\ writes = <<>>
    /\ returned = NoCall

NothingCalled == NothingRun /\ storage = NoRecord

PlainCall == metadata = NoData /\ options = NoData

\* the call c was made with the inputs of the current snapshot
SameInputs(c) ==
    /\ c.nodes = nodes /\ c.edges = edges
    /\ c.metadata = metadata /\ c.options = options

\* const code = convertToMermaid(nodes, edges, metadata, conversionOptions);
\* the observer notes a call made with inputs other than those it remembers
Convert ==
    LET r == convertToMermaid(nodes, edges, metadata, options)
    IN  /\ converted' = TRUE
        /\ mermaidCode' = r.code
        /\ emitted' = r.pieces
        /\ nodeIdMap' = r.nodeIdMap
        /\ nodeDefinitions' = r.nodeDefinitions
        /\ nodeTrace' = r.nodeTrace
        /\ earlier' = IF earlier.called /\ ~SameInputs(earlier)
                      THEN [earlier EXCEPT !.othersSince = TRUE]
                      ELSE earlier
        /\ UNCHANGED <<inputVars, validateVars, editorVars, preview>>

\* const validationResult = validateFlowchartForMermaid(nodes, edges)
Validate ==
    LET r == validateFlowchartForMermaid(nodes, edges)
    IN  /\ validated' = TRUE
        /\ validation' = [isValid |-> r.isValid, warnings |-> r.warnings,
                          errors |-> r.errors]
        /\ measured' = r.measured
        /\ UNCHANGED <<inputVars, convertVars, earlier, editorVars, preview>>

\* The dialog renders: const preview = generateMermaidPreview(mermaidCode)
Preview ==
    /\ preview' = generateMermaidPreview(mermaidCode)
    /\ preview' # preview
    /\ UNCHANGED <<inputVars, convertVars, validateVars, earlier, editorVars>>

\* The editor hands the dialog another snapshot; the dialog keeps the text
\* of the last call until it converts again.
NewSnapshot ==
    /\ nodes' \in RepeatNodes
    /\ edges' \in RepeatEdges
    /\ metadata' \in RepeatMetadata
    /\ options' \in RepeatOptions
    /\ <<nodes', edges', metadata', options'>> # <<nodes, edges, metadata, options>>
    /\ converted' = FALSE
    /\ validated' = FALSE
    /\ UNCHANGED <<mermaidCode, emitted, nodeIdMap, nodeDefinitions, nodeTrace,
                   validation, measured, earlier, editorVars, preview>>

\* The editor hands the dialog other nodes and edges, the metadata and the
\* options stay.
NewGraph ==
    /\ nodes' \in RepeatNodes
    /\ edges' \in RepeatEdges
    /\ <<nodes', edges'>> # <<nodes, edges>>
    /\ converted' = FALSE
    /\ validated' = FALSE
    /\ UNCHANGED <<metadata, options, mermaidCode, emitted, nodeIdMap,
                   nodeDefinitions, nodeTrace, validation, measured, earlier,
                   editorVars, preview>>

\* An observer keeps one call's inputs and text to compare later calls with.
Remember ==
    /\ converted
    /\ earlier = NoCall
    /\ earlier' = [called |-> TRUE, nodes |-> nodes, edges |-> edges,
                   metadata |-> metadata, options |-> options,
                   code |-> mermaidCode, othersSince |-> FALSE]
    /\ UNCHANGED <<inputVars, convertVars, validateVars, editorVars, preview>>

InitIds ==
    /\ nodes \in IdSnapshots /\ edges = <<>> /\ PlainCall /\ NothingCalled
InitLabels ==
    /\ nodes \in LabelSnapshots /\ edges = <<>> /\ PlainCall /\ NothingCalled
InitGraph ==
    /\ nodes \in SeqsUpTo(GraphNodes, MaxNodes)
    /\ edges \in SeqsUpTo(GraphEdges, MaxEdges)
    /\ PlainCall /\ NothingCalled
InitLong ==
    /\ nodes \in SeqsUpTo(LongNodes, MaxNodes)
    /\ edges \in LongEdges /\ PlainCall /\ NothingCalled
InitNodeLines ==
    /\ nodes \in SeqsUpTo(LineNodes, MaxNodes)
    /\ edges = <<>> /\ PlainCall /\ NothingCalled
InitEdgeLabels ==
    /\ nodes \in DecisionSnapshots
    /\ edges \in {<<e>> : e \in LabelledEdges}
    /\ PlainCall /\ NothingCalled
InitDocument ==
    /\ nodes \in DocumentNodes /\ edges \in DocumentEdges
    /\ metadata \in MetadataUniverse /\ options \in OptionsUniverse
    /\ NothingCalled
InitRepeat ==
    /\ nodes \in RepeatNodes /\ edges \in RepeatEdges
    /\ metadata \in RepeatMetadata /\ options \in RepeatOptions
    /\ NothingCalled

NextExport == Convert \/ Validate
NextConvert == Convert
NextValidate == Validate
NextRepeat == Convert \/ NewSnapshot \/ Remember
NextFrame == Convert \/ Validate \/ NewGraph \/ Remember
NextPreview == Convert \/ Preview

\* Both functions on one node with every identifier
SpecIds == InitIds /\ [][NextConvert]_vars
\* Both functions on one node of every type with every label
SpecLabels == InitLabels /\ [][NextExport]_vars
\* convertToMermaid on small graphs with dangling edges
SpecGraph == InitGraph /\ [][NextConvert]_vars
\* validateFlowchartForMermaid on small graphs with dangling edges
SpecGraphValidate == InitGraph /\ [][NextValidate]_vars
\* validateFlowchartForMermaid on nodes with long labels
SpecLong == InitLong /\ [][NextValidate]_vars
\* convertToMermaid on nodes with colliding definition lines
SpecNodeLines == InitNodeLines /\ [][NextConvert]_vars
\* convertToMermaid on one labelled edge
SpecEdgeLabels == InitEdgeLabels /\ [][NextConvert]_vars
\* Both functions with every metadata and option, on an empty and a
\* non-empty graph
SpecDocument == InitDocument /\ [][NextExport]_vars
\* convertToMermaid called again and again on changing snapshots
SpecRepeat == InitRepeat /\ [][NextRepeat]_vars
\* convertToMermaid and the preview of its text, with every metadata and
\* option
SpecPreview == InitDocument /\ [][NextPreview]_vars
\* Both functions called again and again on changing snapshots
SpecFrame == InitRepeat /\ [][NextFrame]_vars

---------------------------------------------------------------------------
(* flowchartStorage.ts: the record in localStorage *)

\* A Date is the second it stands for; new Date(undefined) is invalid.
DateAt(t) == [time |-> t]
InvalidDate == [invalid |-> TRUE]

\* const CURRENT_VERSION = "1.0.0"
CURRENT_VERSION == <<"1", ".", "0", ".", "0">>

\* The text under STORAGE_KEY.  A text is JSON of an object, JSON of null,
\* or no JSON at all.
Stored(text) == [present |-> TRUE, text |-> text]
JsonObject(value) == [json |-> "object", value |-> value]
JsonNull == [json |-> "null"]
NotJson == [json |-> "invalid"]

\* date.toISOString(), and new Date(v) of what a field of parsed JSON holds
toISOString(date) == [iso |-> date.time]
NewDate(obj, field) ==
    IF field \in DOMAIN obj /\ DOMAIN obj[field] = {"iso"}
    THEN DateAt(obj[field].iso)
    ELSE InvalidDate

\* `flowchart_${Date.now()}_${Math.random().toString(36).substr(2, 9)}`
generateId(time, random) ==
    <<"flowchart", "_">> \o NumberToString(time) \o <<"_", random>>

\* serializeFlowchartData
serializeFlowchartData(data) ==
    JsonObject([data EXCEPT !.createdAt = toISOString(@),
                            !.updatedAt = toISOString(@)])

\* deserializeFlowchartData, for a text JSON.parse gives an object for: the
\* fields of the object, with its two dates made Dates
deserializeFlowchartData(text) ==
    [f \in DOMAIN text.value \cup {"createdAt", "updatedAt"} |->
        IF f \in {"createdAt", "updatedAt"} THEN NewDate(text.value, f)
        ELSE text.value[f]]

\* What can go wrong in saveFlowchartData: localStorage cannot be used, the
\* serialized text is over 5 MB (sizes are not followed: the caller says
\* whether this text is), or setItem throws QuotaExceededError.
SaveFaults == {"none", "unavailable", "tooLarge", "quota"}

\* every save makes an id of its own
saveFlowchartDataNewIdEachTime(ns, es, md, existingId, store, fault, time, random) ==
    LET flowchartData ==
            [id |-> generateId(time, random),
             title |-> md.title, description |-> md.description,
             nodes |-> ns, edges |-> es,
             createdAt |-> IF existingId # NoId THEN md.createdAt
                           ELSE DateAt(time),
             updatedAt |-> DateAt(time), version |-> CURRENT_VERSION]
    IN  IF fault # "none"
        THEN [threw |-> TRUE, error |-> "FlowchartStorageError",
              storage |-> store]
        ELSE [threw |-> FALSE, data |-> flowchartData,
              storage |-> Stored(serializeFlowchartData(flowchartData))]

\* the size is looked at after localStorage.setItem
saveFlowchartDataSetItemFirst(ns, es, md, existingId, store, fault, time, random) ==
    LET flowchartData ==
            [id |-> IF existingId # NoId THEN existingId
                    ELSE generateId(time, random),
             title |-> md.title, description |-> md.description,
             nodes |-> ns, edges |-> es,
             createdAt |-> IF existingId # NoId THEN md.createdAt
                           ELSE DateAt(time),
             updatedAt |-> DateAt(time), version |-> CURRENT_VERSION]
    IN  IF fault \in {"unavailable", "quota"}
        THEN [threw |-> TRUE, error |-> "FlowchartStorageError",
              storage |-> store]
        ELSE IF fault = "tooLarge"
        THEN [threw |-> TRUE, error |-> "FlowchartStorageError",
              storage |-> Stored(serializeFlowchartData(flowchartData))]
        ELSE [threw |-> FALSE, data |-> flowchartData,
              storage |-> Stored(serializeFlowchartData(flowchartData))]

\* saveFlowchartData(nodes, edges, metadata, existingId) called at the
\* time, on the store: what it returns or throws, and the store after it
saveFlowchartData(ns, es, md, existingId, store, fault, time, random) ==
    LET flowchartData ==
            [id |-> IF existingId # NoId THEN existingId
                    ELSE generateId(time, random),
             title |-> md.title,
             description |-> md.description,
             nodes |-> ns,
             edges |-> es,
             createdAt |-> IF existingId # NoId THEN md.createdAt
                           ELSE DateAt(time),
             updatedAt |-> DateAt(time),
             version |-> CURRENT_VERSION]
    IN  IF fault = "unavailable"
        THEN [threw |-> TRUE, error |-> "FlowchartStorageError",
              storage |-> store]
        ELSE IF fault = "tooLarge"
        THEN [threw |-> TRUE, error |-> "FlowchartStorageError",
              storage |-> store]
        ELSE IF fault = "quota"
        THEN [threw |-> TRUE, error |-> "FlowchartStorageError",
              storage |-> store]
        ELSE [threw |-> FALSE, data |-> flowchartData,
              storage |-> Stored(serializeFlowchartData(flowchartData))]

\* !flowchartData.id || !flowchartData.version ||
\* !Array.isArray(flowchartData.nodes) || !Array.isArray(flowchartData.edges)
InvalidStructure(flowchartData) ==
    \/ "id" \notin DOMAIN flowchartData
    \/ flowchartData.id = NoId
    \/ "version" \notin DOMAIN flowchartData
    \/ "nodes" \notin DOMAIN flowchartData
    \/ "edges" \notin DOMAIN flowchartData

\* loadFlowchartData() on the store: null, the record, or a throw, and the
\* store after it.  An error that is not a FlowchartStorageError (JSON.parse
\* failed, the JSON is null) removes the item before the throw; the error of
\* the structure check is a FlowchartStorageError and is thrown on at once.
loadFlowchartData(store, available) ==
    IF ~available THEN [outcome |-> "null", storage |-> store]
    ELSE IF ~store.present THEN [outcome |-> "null", storage |-> store]
    ELSE IF store.text.json # "object"
    THEN [outcome |-> "threw", error |-> "FlowchartStorageError",
          storage |-> NoRecord]
    ELSE LET flowchartData == deserializeFlowchartData(store.text)
         IN  IF InvalidStructure(flowchartData)
             THEN [outcome |-> "threw", error |-> "FlowchartStorageError",
                   storage |-> store]
             ELSE [outcome |-> "returned", data |-> flowchartData,
                   storage |-> store]

---------------------------------------------------------------------------
(* FlowchartEditor: the graph, the node counter, the templates, autosave *)

\* Bounds of the editor model: the nodes a drop may add to, the value up
\* to which the counter is followed, the elements selected at once, the
\* edges a connection may add to
MaxEditorNodes == 2
MaxNodeId == 2
MaxSelected == 1
MaxEditorEdges == 2

\* An identifier is text in tokens: a word, the hyphen, digits.  A word
\* holds neither a hyphen nor a digit.
\* `${n}`
NumberText(n) ==
    IF n.infinite THEN <<"-", "Infinity">> ELSE NumberToString(n.value)

\* nodeId.current++: the value after it
Increment(n) == IF n.infinite THEN n ELSE Finite(n.value + 1)

\* parseInt(digits, 10)
RECURSIVE ParseInt(_)
ParseInt(digits) ==
    IF digits = <<>> THEN 0
    ELSE 10 * ParseInt(SubSeq(digits, 1, Len(digits) - 1))
         + (CHOOSE d \in 0..9 : DigitChars[d + 1] = digits[Len(digits)])

\* node.id.match(/-(\d+)$/): parseInt(match[1], 10) on a match, else 0
IdSuffixNumber(id) ==
    LET k == CHOOSE k \in 0..Len(id) :
                 /\ \A j \in (Len(id) - k + 1)..Len(id) : id[j] \in Digits
                 /\ k < Len(id) => id[Len(id) - k] \notin Digits
    IN  IF k >= 1 /\ k < Len(id) /\ id[Len(id) - k] = "-"
        THEN ParseInt(SubSeq(id, Len(id) - k + 1, Len(id)))
        ELSE 0

\* Math.max(...ns.map(suffix number)): -Infinity for no node
MaxSuffixNumber(ns) ==
    IF ns = <<>> THEN NegInfinity
    ELSE Finite(CHOOSE m \in {IdSuffixNumber(ns[i].id) : i \in 1..Len(ns)} :
                    \A i \in 1..Len(ns) : IdSuffixNumber(ns[i].id) <= m)

\* nodePalette: the types that can be dragged, with their default data
PaletteTypes == {"startNode", "processNode", "decisionNode", "endNode",
                 "connectorNode"}
PaletteData(type) ==
    CASE type = "startNode" -> [label |-> TxtStart, nodeType |-> "start"]
      [] type = "processNode" -> [label |-> TxtProcess]
      [] type = "decisionNode" ->
            [label |-> TxtDecision, yesLabel |-> TxtYes, noLabel |-> TxtNo]
      [] type = "endNode" -> [label |-> TxtEnd, nodeType |-> "end"]
      [] type = "connectorNode" -> [label |-> <<>>]

\* A node and an edge of the editor: a selected field that is not there
\* reads as false.
EditorNode(id, type, data) ==
    [id |-> id, type |-> type, data |-> data, selected |-> FALSE]
EditorEdge(source, target) ==
    [source |-> source, target |-> target, selected |-> FALSE]

\* createNewFlowchart(template): the template's nodes and edges
TemplateId(word, n) == <<word, "-", DigitChars[n + 1]>>
TemplateNames == {"empty", "basic", "decision"}
TemplateNodes(template) ==
    CASE template = "basic" ->
            <<EditorNode(TemplateId("start", 0), "startNode",
                         [label |-> TxtStart, nodeType |-> "start"]),
              EditorNode(TemplateId("process", 1), "processNode",
                         [label |-> <<"P", "r", "o", "c", "e", "s", "s", " ", "S", "t", "e", "p">>]),
              EditorNode(TemplateId("end", 2), "endNode",
                         [label |-> TxtEnd, nodeType |-> "end"])>>
      [] template = "decision" ->
            <<EditorNode(TemplateId("start", 0), "startNode",
                         [label |-> TxtStart, nodeType |-> "start"]),
              EditorNode(TemplateId("decision", 1), "decisionNode",
                         [label |-> TxtDecision, yesLabel |-> TxtYes,
                          noLabel |-> TxtNo]),
              EditorNode(TemplateId("process", 2), "processNode",
                         [label |-> <<"Y", "e", "s", " ", "P", "a", "t", "h">>]),
              EditorNode(TemplateId("process", 3), "processNode",
                         [label |-> <<"N", "o", " ", "P", "a", "t", "h">>]),
              EditorNode(TemplateId("end", 4), "endNode",
                         [label |-> TxtEnd, nodeType |-> "end"])>>
      [] OTHER -> <<>>
TemplateEdges(template) ==
    CASE template = "basic" ->
            <<EditorEdge(TemplateId("start", 0), TemplateId("process", 1)),
              EditorEdge(TemplateId("process", 1), TemplateId("end", 2))>>
      [] template = "decision" ->
            <<EditorEdge(TemplateId("start", 0), TemplateId("decision", 1)),
              [source |-> TemplateId("decision", 1),
               target |-> TemplateId("process", 2),
               label |-> TxtYes, selected |-> FALSE],
              [source |-> TemplateId("decision", 1),
               target |-> TemplateId("process", 3),
               label |-> TxtNo, selected |-> FALSE],
              EditorEdge(TemplateId("process", 2), TemplateId("end", 4)),
              EditorEdge(TemplateId("process", 3), TemplateId("end", 4))>>
      [] OTHER -> <<>>

\* The editor's flowchartMetadata.  Its title and dates are not followed:
\* each handler that replaces it also runs the auto-save effect below.
TxtUntitled == <<"U", "n", "t", "i", "t", "l", "e", "d", " ",
                 "F", "l", "o", "w", "c", "h", "a", "r", "t">>
EditorMetadata ==
    [title |-> TxtUntitled, description |-> <<>>,
     createdAt |-> DateAt(0), updatedAt |-> DateAt(0)]

\* Math.random().toString(36).substr(2, 9): two of its values
RandomParts == {"k3x9a1b2c", "p9q8r7s6t"}

\* The auto-save effect after a render with the graph ns, es and the id:
\* a graph that is not empty is handed by performAutoSave to
\* autoSaveFlowchartData, which drops the pending timer and sets one for
\* this graph and this id.  Only the promise of the pending timer can
\* settle, so the timer carries the continuation of its performAutoSave.
AutoSaveEffect(ns, es, id) ==
    IF Len(ns) > 0 \/ Len(es) > 0
    THEN [pending |-> TRUE, nodes |-> ns, edges |-> es, existingId |-> id]
    ELSE autoSaveTimeout

\* saveStatus after the effect: setSaveStatus('unsaved'), then
\* performAutoSave's setSaveStatus('saving'), both for a graph not empty
EffectStatus(ns, es, status) ==
    IF Len(ns) > 0 \/ Len(es) > 0 THEN "saving" ELSE status

\* onDrop: a node of the dragged type, one of the types, with the id
\* `${type}-${nodeId.current++}`
DropOf(types) ==
    \E type \in types :
        LET newNode == EditorNode(<<type, "-">> \o NumberText(nodeId), type,
                                  PaletteData(type))
        IN  /\ Len(nodes) < MaxEditorNodes
            /\ nodeId.infinite \/ nodeId.value < MaxNodeId
            /\ nodes' = Append(nodes, newNode)
            /\ nodeId' = Increment(nodeId)
            /\ autoSaveTimeout' = AutoSaveEffect(nodes', edges, currentFlowchartId)
            /\ saveStatus' = EffectStatus(nodes', edges, saveStatus)
            /\ UNCHANGED <<edges, storage, currentFlowchartId, moduleVars,
                           exportVars>>

OnDrop == DropOf(PaletteTypes)
\* the types isValidConnection tells apart: nodeType start, none, end
FlowTypes == {"startNode", "processNode", "endNode"}
OnDropFlow == DropOf(FlowTypes)

\* an edge from a node to itself passes
isValidConnectionSelfAllowed(source, target, ns, es) ==
    LET Found(id) == {i \in 1..Len(ns) : ns[i].id = id}
    IN  /\ ~\E k \in 1..Len(es) :
                es[k].source = source /\ es[k].target = target
        /\ Found(source) # {} /\ Found(target) # {}
        /\ \A i \in Found(source) :
               "nodeType" \in DOMAIN ns[i].data => ns[i].data.nodeType # "end"
        /\ \A j \in Found(target) :
               "nodeType" \in DOMAIN ns[j].data /\ ns[j].data.nodeType = "start"
                   => \A i \in Found(source) :
                          "nodeType" \in DOMAIN ns[i].data
                              /\ ns[i].data.nodeType = "start"

\* isValidConnection({ source, target }) with the editor's nodes and edges
isValidConnection(source, target, ns, es) ==
    LET Found(id) == {i \in 1..Len(ns) : ns[i].id = id}
        sourceNode == ns[CHOOSE i \in Found(source) :
                            \A j \in Found(source) : i <= j]
        targetNode == ns[CHOOSE i \in Found(target) :
                            \A j \in Found(target) : i <= j]
        NodeTypeIs(node, t) ==
            "nodeType" \in DOMAIN node.data /\ node.data.nodeType = t
    IN  IF source = target THEN FALSE
        ELSE IF \E k \in 1..Len(es) :
                    es[k].source = source /\ es[k].target = target
        THEN FALSE
        ELSE IF Found(source) = {} \/ Found(target) = {} THEN FALSE
        ELSE IF NodeTypeIs(sourceNode, "end") THEN FALSE
        ELSE IF NodeTypeIs(targetNode, "start")
                /\ ~NodeTypeIs(sourceNode, "start")
        THEN FALSE
        ELSE TRUE

\* addEdge(newEdge, eds) of reactflow, for an edge eds has no equal of
addEdge(newEdge, eds) == Append(eds, newEdge)

\* the ids a connection can name: those of the nodes and those the edges
\* still name
ConnectableIds ==
    {nodes[i].id : i \in 1..Len(nodes)}
        \cup {edges[k].source : k \in 1..Len(edges)}
        \cup {edges[k].target : k \in 1..Len(edges)}

\* onConnect(connection): an invalid connection changes nothing
OnConnect ==
    \E source \in ConnectableIds, target \in ConnectableIds :
        /\ IF isValidConnection(source, target, nodes, edges)
           THEN /\ Len(edges) < MaxEditorEdges
                /\ edges' = addEdge(EditorEdge(source, target), edges)
                /\ autoSaveTimeout' =
                       AutoSaveEffect(nodes, edges', currentFlowchartId)
                /\ saveStatus' = EffectStatus(nodes, edges', saveStatus)
           ELSE UNCHANGED <<edges, autoSaveTimeout, saveStatus>>
        /\ UNCHANGED <<nodes, nodeId, storage, currentFlowchartId,
                       moduleVars, exportVars>>

\* createNewFlowchartHandler(template)
CreateNewFlowchart ==
    \E template \in TemplateNames :
        /\ nodes' = TemplateNodes(template)
        /\ edges' = TemplateEdges(template)
        /\ nodeId' = Increment(MaxSuffixNumber(TemplateNodes(template)))
        /\ currentFlowchartId' = NoId
        /\ autoSaveTimeout' = AutoSaveEffect(nodes', edges', NoId)
        /\ saveStatus' = EffectStatus(nodes', edges', "unsaved")
        /\ UNCHANGED <<storage, moduleVars, exportVars>>

\* clearFlowchartHandler, with localStorage in use: the record is removed,
\* the graph is emptied, the id is forgotten, the counter starts again; the
\* pending timer is not touched
ClearFlowchart ==
    /\ storage' = NoRecord
    /\ nodes' = <<>>
    /\ edges' = <<>>
    /\ currentFlowchartId' = NoId
    /\ saveStatus' = "saved"
    /\ nodeId' = Finite(0)
    /\ autoSaveTimeout' = AutoSaveEffect(nodes', edges', NoId)
    /\ UNCHANGED <<moduleVars, exportVars>>

\* onNodesChange, onEdgesChange: the user's selection becomes the selected
\* fields of the nodes and edges
OnSelectionChange ==
    \E S \in SUBSET (1..Len(nodes)), T \in SUBSET (1..Len(edges)) :
        /\ Cardinality(S) + Cardinality(T) <= MaxSelected
        /\ nodes' = [i \in 1..Len(nodes) |->
                        [nodes[i] EXCEPT !.selected = (i \in S)]]
        /\ edges' = [j \in 1..Len(edges) |->
                        [edges[j] EXCEPT !.selected = (j \in T)]]
        /\ <<nodes', edges'>> # <<nodes, edges>>
        /\ autoSaveTimeout' = AutoSaveEffect(nodes', edges', currentFlowchartId)
        /\ saveStatus' = EffectStatus(nodes', edges', saveStatus)
        /\ UNCHANGED <<nodeId, storage, currentFlowchartId, moduleVars,
                       exportVars>>

IsUnselected(item) == ~item.selected

\* the edges at a deleted node go with it
DeleteSelectedWithIncidentEdges ==
    LET gone == {nodes[i].id : i \in {j \in 1..Len(nodes) : nodes[j].selected}}
        Stays(edge) == /\ ~edge.selected
                       /\ edge.source \notin gone /\ edge.target \notin gone
    IN  /\ edges' = SelectSeq(edges, Stays)
        /\ nodes' = SelectSeq(nodes, IsUnselected)
        /\ autoSaveTimeout' = AutoSaveEffect(nodes', edges', currentFlowchartId)
        /\ saveStatus' = EffectStatus(nodes', edges', saveStatus)
        /\ UNCHANGED <<nodeId, storage, currentFlowchartId, moduleVars,
                       exportVars>>

\* deleteSelected
DeleteSelected ==
    /\ edges' = SelectSeq(edges, IsUnselected)
    /\ nodes' = SelectSeq(nodes, IsUnselected)
    /\ autoSaveTimeout' = AutoSaveEffect(nodes', edges', currentFlowchartId)
    /\ saveStatus' = EffectStatus(nodes', edges', saveStatus)
    /\ UNCHANGED <<nodeId, storage, currentFlowchartId, moduleVars,
                   exportVars>>

\* The autosave timer fires and its write succeeds: saveFlowchartData
\* writes the graph the timer was set for, the promise resolves, and
\* performAutoSave goes on with setCurrentFlowchartId(savedData.id) and
\* setSaveStatus('saved').  An id that changed makes a new performAutoSave,
\* so the auto-save effect runs once more with the graph of the editor.
AutoSaveFires ==
    \E random \in RandomParts :
        LET r == saveFlowchartData(autoSaveTimeout.nodes,
                                   autoSaveTimeout.edges, EditorMetadata,
                                   autoSaveTimeout.existingId, storage,
                                   "none", now, random)
            rerun == r.data.id # currentFlowchartId
                     /\ (Len(nodes) > 0 \/ Len(edges) > 0)
        IN  /\ autoSaveTimeout.pending
            /\ storage' = r.storage
            /\ currentFlowchartId' = r.data.id
            /\ saveStatus' = IF rerun THEN "saving" ELSE "saved"
            /\ autoSaveTimeout' =
                   IF rerun
                   THEN [pending |-> TRUE, nodes |-> nodes, edges |-> edges,
                         existingId |-> r.data.id]
                   ELSE NoTimer
            /\ UNCHANGED <<nodes, edges, nodeId, moduleVars, exportVars>>

\* The page is loaded again, with localStorage in use: the editor mounts
\* with no graph, no id, no timer and the counter at 0, and
\* loadExistingData takes the stored record, if there is one, and sets the
\* counter from its node ids; then the auto-save effect runs.
LoadExistingData ==
    LET r == loadFlowchartData(storage, TRUE)
        loaded == r.outcome = "returned"
    IN  /\ nodes' = IF loaded THEN r.data.nodes ELSE <<>>
        /\ edges' = IF loaded THEN r.data.edges ELSE <<>>
        /\ currentFlowchartId' = IF loaded THEN r.data.id ELSE NoId
        /\ nodeId' = IF loaded
                     THEN Increment(MaxSuffixNumber(r.data.nodes))
                     ELSE Finite(0)
        /\ saveStatus' = IF r.outcome = "threw" THEN "error"
                         ELSE EffectStatus(nodes', edges', "saved")
        /\ autoSaveTimeout' =
               IF Len(nodes') > 0 \/ Len(edges') > 0
               THEN [pending |-> TRUE, nodes |-> nodes', edges |-> edges',
                     existingId |-> currentFlowchartId']
               ELSE NoTimer
        /\ storage' = r.storage
        /\ <<nodes', edges', nodeId', autoSaveTimeout', currentFlowchartId',
             saveStatus'>>
               # <<nodes, edges, nodeId, autoSaveTimeout, currentFlowchartId,
                   saveStatus>>
        /\ UNCHANGED <<moduleVars, exportVars>>

\* The editor as it mounts on empty storage
InitEditor ==
    /\ nodes = <<>> /\ edges = <<>> /\ PlainCall /\ NothingCalled

NextEditor ==
    \/ OnDrop
    \/ CreateNewFlowchart
    \/ ClearFlowchart
    \/ OnSelectionChange
    \/ DeleteSelected

NextConnect ==
    \/ OnDropFlow
    \/ OnConnect
    \/ OnSelectionChange
    \/ DeleteSelected

NextEditorStorage ==
    \/ OnDrop
    \/ CreateNewFlowchart
    \/ ClearFlowchart
    \/ AutoSaveFires
    \/ LoadExistingData

NextQuiesce ==
    \/ OnDrop
    \/ OnConnect
    \/ AutoSaveFires

\* The editor edited: drops, templates, clears, selections, deletions
SpecEditor == InitEditor /\ [][NextEditor]_vars
\* The editor edited: drops, connections, selections, deletions
SpecConnect == InitEditor /\ [][NextConnect]_vars
\* The editor edited, saved and loaded again
SpecEditorStorage == InitEditor /\ [][NextEditorStorage]_vars
\* The editor with drops and connections, of which the counter and the
\* nodes allow finitely many, and with every write taken by localStorage;
\* a timer that is set fires.
SpecQuiesce ==
    InitEditor /\ [][NextQuiesce]_vars /\ WF_vars(AutoSaveFires)

---------------------------------------------------------------------------
(* flowchartStorage.ts called directly: save, load, autosave *)

\* Bounds: the autoSaveFlowchartData calls followed, the seconds followed
MaxCalls == 3
MaxTime == 3

\* delay: number = 2000, in seconds
DefaultDelay == 2
Delays == 1..DefaultDelay

\* What the functions are called with: a graph of one node, the editor's
\* metadata, no id or an id generated earlier
SaveGraphs ==
    {<<EditorNode(<<type, "-", "0">>, type, PaletteData(type))>> :
        type \in {"startNode", "processNode"}}
ExistingIds == {NoId, generateId(0, "k3x9a1b2c")}

\* What localStorage may hold when the page opens: nothing, text that is
\* no JSON, JSON null, a record, a record without one of the fields
\* loadFlowchartData asks for
Without(obj, field) == [f \in DOMAIN obj \ {field} |-> obj[f]]
SavedRecord ==
    saveFlowchartData(<<>>, <<>>, EditorMetadata, NoId, NoRecord, "none", 0,
                      "k3x9a1b2c").storage
StoredTexts ==
    {NoRecord, Stored(NotJson), Stored(JsonNull), SavedRecord}
        \cup {Stored(JsonObject(Without(SavedRecord.text.value, field))) :
                field \in {"id", "version", "nodes", "edges"}}

\* the timer of the call before is left to run
clearTimeoutLeftOut(cs, handle) == cs

\* the promise of the dropped timer is rejected
clearTimeoutRejecting(cs, handle) ==
    IF handle \in DOMAIN cs /\ cs[handle].timer = "pending"
    THEN [cs EXCEPT ![handle].timer = "cleared",
                    ![handle].promise = "rejected"]
    ELSE cs

\* clearTimeout(handle): a timer that is pending is dropped
clearTimeout(cs, handle) ==
    IF handle \in DOMAIN cs /\ cs[handle].timer = "pending"
    THEN [cs EXCEPT ![handle].timer = "cleared"]
    ELSE cs

\* the observer marks the calls whose timer a new call finds pending
Supersede(cs) ==
    [k \in DOMAIN cs |->
        IF cs[k].timer = "pending" THEN [cs[k] EXCEPT !.superseded = TRUE]
        ELSE cs[k]]

\* autoSaveFlowchartData(nodes, edges, metadata, existingId, delay): the
\* timer autoSaveTimeout holds, that of the call before, is cleared and a
\* timer is set; the promise stays pending
AutoSaveFlowchartData ==
    \E ns \in SaveGraphs, id \in ExistingIds, delay \in Delays :
        /\ Len(calls) < MaxCalls
        /\ calls' = Append(clearTimeout(Supersede(calls), Len(calls)),
                           [nodes |-> ns, edges |-> <<>>,
                            metadata |-> EditorMetadata, existingId |-> id,
                            at |-> now, due |-> now + delay,
                            timer |-> "pending", promise |-> "pending",
                            superseded |-> FALSE])
        /\ autoSaveTimeout' = [pending |-> TRUE, nodes |-> ns, edges |-> <<>>,
                               existingId |-> id]
        /\ UNCHANGED <<nodes, edges, nodeId, storage, sessionVars, now,
                       writes, returned, exportVars>>

\* A timer that is due runs its callback: saveFlowchartData, then resolve
\* with what it returned or reject with what it threw
TimerFires ==
    \E k \in DOMAIN calls, fault \in SaveFaults, random \in RandomParts :
        LET c == calls[k]
            r == saveFlowchartData(c.nodes, c.edges, c.metadata,
                                   c.existingId, storage, fault, now, random)
        IN  /\ c.timer = "pending"
            /\ c.due <= now
            /\ storage' = r.storage
            /\ calls' = [calls EXCEPT
                            ![k].timer = "fired",
                            ![k].promise = IF r.threw THEN "rejected"
                                           ELSE "resolved"]
            /\ writes' = IF r.threw THEN writes
                         ELSE Append(writes, [at |-> now, call |-> k,
                                              data |-> r.data])
            /\ autoSaveTimeout' = IF k = Len(calls) THEN NoTimer
                                  ELSE autoSaveTimeout
            /\ UNCHANGED <<nodes, edges, nodeId, sessionVars, now, returned,
                           exportVars>>

\* A second passes; a timer that is due runs before the clock moves on
Tick ==
    /\ now < MaxTime
    /\ \A k \in DOMAIN calls : calls[k].timer = "pending" => calls[k].due > now
    /\ now' = now + 1
    /\ UNCHANGED <<nodes, edges, nodeId, autoSaveTimeout, storage,
                   sessionVars, calls, writes, returned, exportVars>>

\* saveFlowchartData called directly
SaveFlowchartData ==
    \E ns \in SaveGraphs, id \in ExistingIds, fault \in SaveFaults,
       random \in RandomParts :
        LET r == saveFlowchartData(ns, <<>>, EditorMetadata, id, storage,
                                   fault, now, random)
        IN  /\ storage' = r.storage
            /\ returned' = [called |-> TRUE, fn |-> "saveFlowchartData",
                            nodes |-> ns, existingId |-> id, at |-> now,
                            fault |-> fault, before |-> storage,
                            result |-> Without(r, "storage")]
            /\ UNCHANGED <<nodes, edges, nodeId, autoSaveTimeout,
                           sessionVars, now, calls, writes, exportVars>>

\* loadFlowchartData called directly
LoadFlowchartData ==
    \E available \in BOOLEAN :
        LET r == loadFlowchartData(storage, available)
        IN  /\ storage' = r.storage
            /\ returned' = [called |-> TRUE, fn |-> "loadFlowchartData",
                            available |-> available, before |-> storage,
                            result |-> Without(r, "storage")]
            /\ UNCHANGED <<nodes, edges, nodeId, autoSaveTimeout,
                           sessionVars, now, calls, writes, exportVars>>

InitStorage ==
    /\ nodes = <<>> /\ edges = <<>> /\ PlainCall /\ NothingRun
    /\ storage \in StoredTexts

NextAutoSave == AutoSaveFlowchartData \/ TimerFires \/ Tick
NextStorage == SaveFlowchartData \/ LoadFlowchartData \/ Tick

\* autoSaveFlowchartData called again and again while time passes
SpecAutoSave == InitEditor /\ [][NextAutoSave]_vars
\* saveFlowchartData and loadFlowchartData called on what localStorage holds
SpecStorage == InitStorage /\ [][NextStorage]_vars

---------------------------------------------------------------------------
(* What the claims are stated with *)

RawQuoteChars == {"\"", "'"}
RawBreakChars == {"\n", "\r"}

\* a piece without the line feed that ends it
LineOf(piece) == SubSeq(piece.text, 1, Len(piece.text) - 1)

IsNodePiece(piece) == piece.sec = "node"
IsEdgePiece(piece) == piece.sec = "edge"
NodeLines == SelectSeq(emitted, IsNodePiece)
EdgeLines == SelectSeq(emitted, IsEdgePiece)
SectionsOf(pieces) == [k \in 1..Len(pieces) |-> pieces[k].sec]

NodeIds == {nodes[i].id : i \in 1..Len(nodes)}
BothEndsAreNodes(edge) == edge.source \in NodeIds /\ edge.target \in NodeIds
KeptEdges == {i \in 1..Len(edges) : BothEndsAreNodes(edges[i])}

\* the width of the brackets around the label of a node of the type
BracketWidth(type) ==
    IF type \in {"startNode", "endNode", "connectorNode"} THEN 2 ELSE 1

\* what stands between the shape brackets of node i
EmbeddedLabel(i) ==
    LET shape == nodeTrace[i].mermaidShape
        w == BracketWidth(nodes[i].type)
    IN  SubSeq(shape, w + 1, Len(shape) - w)

\* one pass over the label: the quotes and the newline become their
\* entities, carriage returns go; then the blanks at both ends go
EscapedChar(c) ==
    CASE c = "\"" -> TxtQuot
      [] c = "'" -> TxtApos
      [] c = "\n" -> TxtBr
      [] c = "\r" -> <<>>
      [] OTHER -> <<c>>

RECURSIVE EscapeEach(_)
EscapeEach(label) ==
    IF label = <<>> THEN <<>>
    ELSE EscapedChar(Head(label)) \o EscapeEach(Tail(label))

EscapedForm(label) == Trim(EscapeEach(label))

\* escaping leaves the label as it is
EscapeFree(label) ==
    /\ Range(label) \cap (RawQuoteChars \cup RawBreakChars) = {}
    /\ label # <<>> => label[1] \notin WhiteSpace /\ label[Len(label)] \notin WhiteSpace

FieldOr(obj, field, default) ==
    IF field \in DOMAIN obj /\ obj[field] # <<>> THEN obj[field] ELSE default

HasSuffix(s, suffix) ==
    /\ Len(s) >= Len(suffix)
    /\ SubSeq(s, Len(s) - Len(suffix) + 1, Len(s)) = suffix

HasPrefix(s, prefix) ==
    /\ Len(s) >= Len(prefix)
    /\ SubSeq(s, 1, Len(prefix)) = prefix

---------------------------------------------------------------------------
(* Claims *)

\* C1: convertToMermaid is deterministic: a call returns the text that an
\* earlier call with the same nodes, edges, metadata and options returned,
\* whatever calls with other inputs were made in between.
C1_Deterministic ==
    (converted /\ earlier.called /\ SameInputs(earlier))
        => mermaidCode = earlier.code

\* C1 witness: the remembered call is repeated after a call with other
\* inputs, on a graph with a dangling edge.
C1_Witness ==
    /\ converted /\ earlier.called /\ SameInputs(earlier)
    /\ earlier.othersSince
    /\ Len(nodes) = 1 /\ Len(edges) = 1 /\ KeptEdges = {}

\* C2: an edge whose source or target is not the id of a node gives no edge
\* line, wherever it stands in the edge sequence, and the number of edge
\* lines is the number of edges whose source and target are both node ids.
C2_DanglingEdgesSkipped ==
    converted =>
        /\ Len(EdgeLines) = Cardinality(KeptEdges)
        /\ \A i \in 1..Len(edges) :
              ~BothEndsAreNodes(edges[i]) =>
                  \A k \in 1..Len(EdgeLines) :
                      LineOf(EdgeLines[k]) #
                          TxtIndent \o sanitizeNodeId(edges[i].source) \o TxtArrow
                              \o sanitizeNodeId(edges[i].target)

\* C2 witness: a dangling edge stands before an edge that is kept.
C2_Witness ==
    /\ converted
    /\ Len(nodes) = 2 /\ Len(edges) = 2
    /\ ~BothEndsAreNodes(edges[1]) /\ edges[1].source \in NodeIds
    /\ BothEndsAreNodes(edges[2])
    /\ Len(EdgeLines) = 1

\* C3 as claimed: the label whose length the validator compares with the
\* limit is the string that stands between the node's shape brackets.
C3_MeasuredIsEmbedded ==
    (converted /\ validated) =>
        \A i \in 1..Len(nodes) : EmbeddedLabel(i) = measured[i]

\* C3 as amended: the label the validator measures is the resolved label
\* that convertToMermaid hands to getMermaidShape, and the string between
\* the shape brackets is that label escaped: the two are the same string
\* exactly when escaping leaves the label as it is.
C3_MeasuredIsResolved ==
    (converted /\ validated) =>
        \A i \in 1..Len(nodes) :
            /\ measured[i] = nodeTrace[i].nodeLabel
            /\ measured[i] # <<>>
            /\ (EmbeddedLabel(i) = measured[i]) <=> EscapeFree(measured[i])

\* C3 witness: a label with a double quote was measured and embedded.
C3_Witness ==
    /\ converted /\ validated
    /\ measured = <<(<<"\"">>)>>
    /\ EmbeddedLabel(1) = TxtQuot

\* C4: sanitizeNodeId puts '_' for every character outside [A-Za-z0-9_] and
\* prefixes 'node_' when the result does not start with a letter; the
\* result is never empty, starts with a letter and holds only
\* [A-Za-z0-9_]; "start-0" gives "start_0" and "0node" gives "node_0node".
C4_SanitizedIds ==
    converted =>
        \A i \in 1..Len(nodes) :
            LET id == nodes[i].id
                s == nodeTrace[i].sanitizedId
                shift == Len(s) - Len(id)
            IN  /\ nodeIdMap[id] = s
                /\ s # <<>> /\ s[1] \in Letters
                /\ Range(s) \subseteq WordChars
                /\ shift = IF id # <<>> /\ id[1] \in Letters THEN 0 ELSE 5
                /\ SubSeq(s, 1, shift) = SubSeq(TxtNodePrefix, 1, shift)
                /\ \A k \in 1..Len(id) :
                      s[k + shift] = IF id[k] \in WordChars THEN id[k] ELSE "_"
                /\ id = IdStart0 => s = <<"s", "t", "a", "r", "t", "_", "0">>
                /\ id = Id0node =>
                      s = <<"n", "o", "d", "e", "_", "0", "n", "o", "d", "e">>

\* C4 witness: the identifier "0node" was sanitized.
C4_Witness ==
    /\ converted
    /\ nodes[1].id = Id0node
    /\ nodeTrace[1].sanitizedId = TxtNodePrefix \o Id0node

\* C5: a node definition line holds no raw double quote, single quote,
\* newline or carriage return: in the label between the brackets every '"'
\* is '#quot;', every "'" is '#apos;', every newline is '<br/>', carriage
\* returns are gone, and the blanks left at both ends are trimmed.
C5_NodeLabelsEscaped ==
    converted =>
        /\ \A k \in 1..Len(NodeLines) :
              Range(LineOf(NodeLines[k])) \cap (RawQuoteChars \cup RawBreakChars) = {}
        /\ \A i \in 1..Len(nodes) :
              LET label == EmbeddedLabel(i)
                  want == EscapedForm(nodeTrace[i].nodeLabel)
              IN  /\ label = IF want = <<>> /\ nodes[i].type = "connectorNode"
                             THEN <<Bullet>> ELSE want
                  /\ label # <<>> =>
                        label[1] \notin WhiteSpace /\ label[Len(label)] \notin WhiteSpace
                  /\ \E k \in 1..Len(NodeLines) :
                        LineOf(NodeLines[k]) =
                            TxtIndent \o nodeTrace[i].sanitizedId
                                \o nodeTrace[i].mermaidShape

\* C5 witness: a label with both quotes and a newline was rendered.
C5_Witness ==
    /\ converted
    /\ nodes[1].type = "processNode"
    /\ nodes[1].data = [label |-> LabelQuotesNewline]
    /\ EmbeddedLabel(1) = <<"a">> \o TxtQuot \o <<"b">> \o TxtApos \o <<"c">>
                              \o TxtBr \o <<"d">>

\* C6: every edge label embedded in an edge line is escaped as node labels
\* are, the edge's own label and a decision node's yesLabel or noLabel
\* alike: no edge line holds a raw double quote, single quote or newline.
C6_EdgeLabelsEscaped ==
    converted =>
        \A k \in 1..Len(EdgeLines) :
            Range(LineOf(EdgeLines[k])) \cap (RawQuoteChars \cup {"\n"}) = {}

\* the label the claim C7 gives the edge, and whether it gives one
C7_ResolvedLabel(edge) ==
    LET sourceNode == CHOOSE n \in Range(nodes) : n.id = edge.source
        handle == IF "sourceHandle" \in DOMAIN edge THEN edge.sourceHandle
                  ELSE "none"
        decision == sourceNode.type = "decisionNode"
    IN  CASE decision /\ handle = "decision-yes" ->
                [labelled |-> TRUE, label |-> FieldOr(sourceNode.data, "yesLabel", TxtYes)]
          [] decision /\ handle = "decision-no" ->
                [labelled |-> TRUE, label |-> FieldOr(sourceNode.data, "noLabel", TxtNo)]
          [] OTHER ->
                IF FieldOr(edge, "label", <<>>) # <<>>
                THEN [labelled |-> TRUE, label |-> EscapedForm(edge.label)]
                ELSE [labelled |-> FALSE, label |-> <<>>]

\* C7: out of a decision node, the source handle 'decision-yes' gives the
\* node's yesLabel ('Yes' when there is none) and 'decision-no' its noLabel
\* ('No' when there is none), before the edge's own label; with another
\* source handle, or out of another node, the edge's own non-empty label
\* (escaped) is used, and else the line is '<source> --> <target>'.  A
\* labelled line is '<source> -->|<label>| <target>', with the sanitized
\* ids of the edge's own source and target.
C7_EdgeLabelResolution ==
    converted =>
        \A i \in 1..Len(edges) :
            IF BothEndsAreNodes(edges[i])
            THEN LET want == C7_ResolvedLabel(edges[i])
                     source == sanitizeNodeId(edges[i].source)
                     target == sanitizeNodeId(edges[i].target)
                 IN  /\ Len(EdgeLines) = 1
                     /\ LineOf(EdgeLines[1]) =
                           TxtIndent \o source
                               \o (IF want.labelled
                                   THEN <<" ", "-", "-", ">", "|">> \o want.label
                                            \o <<"|", " ">>
                                   ELSE <<" ", "-", "-", ">", " ">>)
                               \o target
            ELSE EdgeLines = <<>>

\* C7 witness: the 'decision-yes' edge of a decision node with yesLabel "P"
\* carries a label of its own and is rendered with "P".
C7_Witness ==
    /\ converted
    /\ nodes[1].data = [yesLabel |-> <<"P">>, noLabel |-> <<>>]
    /\ edges = <<[source |-> IdD, target |-> IdA,
                  sourceHandle |-> "decision-yes", label |-> <<"L">>]>>
    /\ LineOf(EdgeLines[1]) =
          TxtIndent \o <<"d", "_", "1">> \o <<" ", "-", "-", ">", "|", "P", "|", " ">>
              \o IdA

\* C8: for an empty node sequence, whatever the edges, validation returns the
\* one warning 'Flowchart is empty', no error and isValid = true, and
\* convertToMermaid returns the title front matter (if the title is wanted
\* and there is one), the header and the placeholder comment line, with no
\* edge line, no description and no theme directive.
C8_EmptyFlowchart ==
    /\ (validated /\ nodes = <<>>) =>
          validation = [isValid |-> TRUE,
                        warnings |-> <<TxtFlowchartIsEmpty>>,
                        errors |-> <<>>]
    /\ (converted /\ nodes = <<>>) =>
          LET titled == /\ FieldOr(metadata, "title", <<>>) # <<>>
                        /\ ("includeTitle" \in DOMAIN options => options.includeTitle)
              frontMatter == <<"-", "-", "-", "\n">> \o TxtTitleKey
                                 \o metadata.title \o <<"\n", "-", "-", "-", "\n">>
              direction == FieldOr(options, "direction", <<"T", "D">>)
          IN  /\ SectionsOf(emitted) =
                    (IF titled THEN <<"title">> ELSE <<>>) \o <<"header", "empty">>
              /\ mermaidCode =
                    (IF titled THEN frontMatter ELSE <<>>)
                        \o TxtFlowchart \o direction \o <<"\n">>
                        \o TxtEmptyFlowchart \o <<"\n">>

\* C8 witness: both functions ran on no nodes, one edge, a title, a
\* description and a theme.
C8_Witness ==
    /\ converted /\ validated
    /\ nodes = <<>> /\ edges # <<>>
    /\ metadata = [title |-> TitleT, description |-> DescriptionD]
    /\ Truthy(options, "theme")
    /\ Len(emitted) = 3

\* the number of nodes that no edge names as its source or its target
C9_Disconnected ==
    Cardinality({i \in 1..Len(nodes) :
        \A j \in 1..Len(edges) :
            edges[j].source # nodes[i].id /\ edges[j].target # nodes[i].id})

\* C9: the warning '<k> disconnected node(s) found' is given once when
\* k > 0 and not at all when k = 0, k the number of nodes whose id is
\* neither source nor target of an edge; 3 nodes and 1 edge between two of
\* them give '1 disconnected node(s) found'.
C9_DisconnectedWarning ==
    validated =>
        LET k == C9_Disconnected
            given == {w \in 1..Len(validation.warnings) :
                         HasSuffix(validation.warnings[w], TxtDisconnected)}
        IN  /\ k = 0 => given = {}
            /\ k > 0 =>
                  /\ Cardinality(given) = 1
                  /\ \A w \in given :
                        validation.warnings[w] = <<DigitChars[k + 1]>> \o TxtDisconnected

\* C9 witness: three distinct nodes, one edge between two of them, and the
\* warning for one disconnected node.
C9_Witness ==
    /\ validated
    /\ Len(nodes) = 3 /\ Cardinality(NodeIds) = 3
    /\ Len(edges) = 1 /\ BothEndsAreNodes(edges[1])
    /\ edges[1].source # edges[1].target
    /\ validation.warnings = <<(<<"1">> \o TxtDisconnected)>>

\* the nodes whose resolved label is longer than 50 characters
C10_LongNodes == {i \in 1..Len(nodes) : Len(getNodeLabel(nodes[i])) > 50}

\* the warning the claim C10 gives node i
C10_Warning(i) ==
    <<"N", "o", "d", "e", " ", "\"">> \o nodes[i].id
        \o TxtHasLongLabel \o NumberToString(Len(getNodeLabel(nodes[i])))
        \o TxtCharacters

\* C10: there is one long-label warning for each node whose resolved label
\* is longer than 50 characters, naming the node's id and the label's
\* length, and none for a node with a label of 50 characters or fewer.
C10_LongLabelWarnings ==
    validated =>
        LET given == {w \in 1..Len(validation.warnings) :
                         HasPrefix(validation.warnings[w], TxtNodeQuote)}
        IN  /\ Cardinality(given) = Cardinality(C10_LongNodes)
            /\ \A i \in C10_LongNodes :
                  Cardinality({w \in given :
                                  validation.warnings[w] = C10_Warning(i)})
                  = Cardinality({j \in C10_LongNodes :
                                    C10_Warning(j) = C10_Warning(i)})

\* C10 witness: a node with 51 characters is warned about, the node with
\* 50 characters before it is not.
C10_Witness ==
    /\ validated
    /\ Len(nodes) = 2
    /\ nodes[1].data = [label |-> LabelAtLimit]
    /\ nodes[2].data = [label |-> LabelOverLimit]
    /\ Len(validation.warnings) = 2
    /\ validation.warnings[2] =
          TxtNodeQuote \o nodes[2].id \o TxtHasLongLabel \o <<"5", "1">>
              \o TxtCharacters

\* C11: validation returns isValid = true exactly when its errors list is
\* empty, whatever the warnings; as the rules stand no input gives an
\* error, so isValid is true for every node and edge sequence.
C11_ValidIffNoErrors ==
    validated =>
        /\ validation.isValid <=> (validation.errors = <<>>)
        /\ validation.errors = <<>>
        /\ validation.isValid

\* C11 witness: a graph with a dangling edge and disconnected nodes was
\* validated: there is a warning, and isValid is true.
C11_Witness ==
    /\ validated
    /\ Len(nodes) = 3 /\ Len(edges) = 2 /\ KeptEdges = {}
    /\ validation.warnings # <<>>
    /\ validation.isValid

\* the k-th member of a set of positions, in rising order
C12_Nth(S, k) == CHOOSE i \in S : Cardinality({j \in S : j < i}) = k - 1

C12_IsLongLabelWarning(w) == HasPrefix(w, <<"N", "o", "d", "e", " ", "\"">>)

\* C12: the warnings are ordered: 'Flowchart is empty' stands first if it
\* is there, the disconnected-nodes warning stands after nothing but that
\* one and before every long-label warning, and the long-label warnings
\* stand in the order of their nodes in the node sequence.
C12_WarningsOrdered ==
    validated =>
        LET ws == validation.warnings
            long == SelectSeq(ws, C12_IsLongLabelWarning)
        IN  /\ \A w \in 1..Len(ws) : ws[w] = TxtFlowchartIsEmpty => w = 1
            /\ \A w \in 1..Len(ws) :
                  HasSuffix(ws[w], TxtDisconnected) =>
                      /\ \A v \in 1..(w - 1) : ws[v] = TxtFlowchartIsEmpty
                      /\ \A v \in 1..Len(ws) : C12_IsLongLabelWarning(ws[v]) => w < v
            /\ Len(long) = Cardinality(C10_LongNodes)
            /\ \A k \in 1..Len(long) :
                  long[k] = C10_Warning(C12_Nth(C10_LongNodes, k))

\* C12 witness: of three nodes b, a, a without edges the first and the last
\* have long labels: the disconnected-nodes warning, then the warning of
\* the first node, then that of the third.
C12_Witness ==
    /\ validated
    /\ Len(nodes) = 3 /\ edges = <<>>
    /\ C10_LongNodes = {1, 3}
    /\ nodes[1].id = IdB /\ nodes[2].id = IdA /\ nodes[3].id = IdA
    /\ Len(validation.warnings) = 3
    /\ validation.warnings[1] = <<"3">> \o TxtDisconnected
    /\ validation.warnings[2] = C10_Warning(1)
    /\ validation.warnings[3] = C10_Warning(3)
    /\ validation.warnings[2] # validation.warnings[3]

\* the definition line of node i: indent, sanitized id, shape
C13_Line(i) ==
    TxtIndent \o sanitizeNodeId(nodes[i].id)
        \o getMermaidShape(nodes[i].type, getNodeLabel(nodes[i]))

\* the nodes before which no node has the same definition line
C13_Firsts ==
    {i \in 1..Len(nodes) : \A j \in 1..(i - 1) : C13_Line(j) # C13_Line(i)}

\* C13: the node definition lines are the lines of the nodes in node order,
\* each distinct text once, where it first occurs: nodes with the same
\* line give one line, nodes with different lines give one each, and with
\* all sanitized ids distinct there are as many lines as nodes.
C13_NodeLinesOnce ==
    converted =>
        /\ Len(NodeLines) = Cardinality(C13_Firsts)
        /\ \A k \in 1..Len(NodeLines) :
              LineOf(NodeLines[k]) = C13_Line(C12_Nth(C13_Firsts, k))
        /\ \A k, l \in 1..Len(NodeLines) :
              k # l => NodeLines[k] # NodeLines[l]
        /\ \A i, j \in 1..Len(nodes) :
              C13_Line(i) # C13_Line(j) =>
                  \E k, l \in 1..Len(NodeLines) :
                      /\ k # l
                      /\ LineOf(NodeLines[k]) = C13_Line(i)
                      /\ LineOf(NodeLines[l]) = C13_Line(j)
        /\ (\A i, j \in 1..Len(nodes) :
                i # j => sanitizeNodeId(nodes[i].id) # sanitizeNodeId(nodes[j].id))
              => Len(NodeLines) = Len(nodes)

\* C13 witness: the nodes "a-", "a" and "a_" of one type: the first and the
\* third have the same line, which stands once, before the line of "a".
C13_Witness ==
    /\ converted
    /\ Len(nodes) = 3
    /\ nodes[1].id = IdADash /\ nodes[2].id = IdA /\ nodes[3].id = IdAUnder
    /\ nodes[1].type = nodes[3].type
    /\ Len(NodeLines) = 2
    /\ LineOf(NodeLines[1]) = C13_Line(3)
    /\ LineOf(NodeLines[2]) = C13_Line(2)

\* C14: there is one edge line for each edge whose source and target are
\* node ids, in the order of the edge sequence, and a line is not dropped
\* for being the same as an earlier one: parallel edges give one line each.
C14_EdgeLinesInOrder ==
    converted =>
        /\ Len(EdgeLines) = Cardinality(KeptEdges)
        /\ \A k \in 1..Len(EdgeLines) :
              LET edge == edges[C12_Nth(KeptEdges, k)]
              IN  LineOf(EdgeLines[k]) =
                      TxtIndent \o sanitizeNodeId(edge.source)
                          \o <<" ", "-", "-", ">", " ">>
                          \o sanitizeNodeId(edge.target)

\* C14 witness: two edges between the same two nodes give the same line
\* twice.
C14_Witness ==
    /\ converted
    /\ Len(edges) = 2 /\ KeptEdges = {1, 2}
    /\ edges[1] = edges[2] /\ edges[1].source # edges[1].target
    /\ Len(EdgeLines) = 2
    /\ EdgeLines[1] = EdgeLines[2]

\* the sections the claim C15 names, under their conditions
C15_Titled ==
    /\ FieldOr(metadata, "title", <<>>) # <<>>
    /\ ("includeTitle" \in DOMAIN options => options.includeTitle)
C15_Described ==
    /\ FieldOr(metadata, "description", <<>>) # <<>>
    /\ ("includeDescription" \in DOMAIN options => options.includeDescription)
C15_Themed == FieldOr(options, "theme", <<>>) # <<>>

\* the piece of the section, if it is there
C15_Piece(sec) == CHOOSE k \in 1..Len(emitted) : emitted[k].sec = sec

\* C15: for a non-empty node sequence the text is made of, in this order:
\* the title front matter iff the title is wanted (the default) and not
\* empty; the header 'flowchart <direction>', the direction 'TD' by
\* default and else as given; the node definition lines; the edge lines;
\* the description as a '%%' comment line iff it is wanted (the default)
\* and not empty; the theme directive iff a theme is set.
C15_DocumentSections ==
    (converted /\ nodes # <<>>) =>
        /\ mermaidCode = Flatten(emitted)
        /\ SectionsOf(emitted) =
              (IF C15_Titled THEN <<"title">> ELSE <<>>)
              \o <<"header">>
              \o [k \in 1..Len(NodeLines) |-> "node"]
              \o (IF edges # <<>> THEN <<"separator">> ELSE <<>>)
              \o [k \in 1..Len(EdgeLines) |-> "edge"]
              \o (IF C15_Described THEN <<"description">> ELSE <<>>)
              \o (IF C15_Themed THEN <<"theme">> ELSE <<>>)
        /\ NodeLines # <<>>
        /\ Len(EdgeLines) = Cardinality(KeptEdges)
        /\ C15_Titled =>
              emitted[C15_Piece("title")].text =
                  <<"-", "-", "-", "\n", "t", "i", "t", "l", "e", ":", " ">>
                      \o metadata.title \o <<"\n", "-", "-", "-", "\n">>
        /\ emitted[C15_Piece("header")].text =
              <<"f", "l", "o", "w", "c", "h", "a", "r", "t", " ">>
                  \o FieldOr(options, "direction", <<"T", "D">>) \o <<"\n">>
        /\ C15_Described =>
              emitted[C15_Piece("description")].text =
                  <<"\n", " ", " ", " ", " ", "%", "%", " ">>
                      \o metadata.description \o <<"\n">>
        /\ C15_Themed =>
              emitted[C15_Piece("theme")].text =
                  <<"\n">> \o TxtThemeOpen \o options.theme \o TxtThemeClose
                      \o <<"\n">>

\* C15 witness: one node and one edge with a title, a description, the
\* direction LR and a theme: all six sections are there.
C15_Witness ==
    /\ converted
    /\ Len(nodes) = 1 /\ KeptEdges = {1}
    /\ metadata = [title |-> TitleT, description |-> DescriptionD]
    /\ options = [direction |-> TxtLR, theme |-> ThemeK]
    /\ SectionsOf(emitted) = <<"title", "header", "node", "separator", "edge",
                               "description", "theme">>

\* C16: the shape of a node is '([label])' for a start or an end node,
\* '[label]' for a process node, '{label}' for a decision node,
\* '((label))' for a connector node, with the bullet when the label is
\* empty after escaping, and '[label]' for any other type; label is the
\* resolved label, escaped.
C16_ShapeMapping ==
    converted =>
        \A i \in 1..Len(nodes) :
            LET label == EscapedForm(nodeTrace[i].nodeLabel)
                type == nodes[i].type
            IN  nodeTrace[i].mermaidShape =
                    CASE type \in {"startNode", "endNode"} ->
                            <<"(", "[">> \o label \o <<"]", ")">>
                      [] type = "processNode" -> <<"[">> \o label \o <<"]">>
                      [] type = "decisionNode" -> <<"{">> \o label \o <<"}">>
                      [] type = "connectorNode" ->
                            <<"(", "(">>
                                \o (IF label = <<>> THEN <<Bullet>> ELSE label)
                                \o <<")", ")">>
                      [] OTHER -> <<"[">> \o label \o <<"]">>

\* C16 witness: a connector node whose label is one blank, empty after
\* escaping, is rendered with the bullet.
C16_Witness ==
    /\ converted
    /\ nodes[1].type = "connectorNode"
    /\ nodes[1].data = [label |-> <<" ">>]
    /\ nodeTrace[1].nodeLabel = <<" ">>
    /\ nodeTrace[1].mermaidShape = <<"(", "(", Bullet, ")", ")">>

\* C17: a node with a non-empty label resolves to that label; with no
\* label or an empty one, a start node resolves to 'Start', an end node
\* (a node of type startNode with data.nodeType 'end' included) to 'End',
\* a decision node to 'Decision?', a connector node to the bullet and a
\* node of an unrecognized type to 'Node'.
C17_LabelResolution ==
    converted =>
        \A i \in 1..Len(nodes) :
            LET data == nodes[i].data
                type == nodes[i].type
                label == nodeTrace[i].nodeLabel
                markedEnd == "nodeType" \in DOMAIN data /\ data.nodeType = "end"
            IN  IF "label" \in DOMAIN data /\ data.label # <<>>
                THEN label = data.label
                ELSE /\ (type = "startNode" /\ ~markedEnd) => label = <<"S", "t", "a", "r", "t">>
                     /\ (type = "startNode" /\ markedEnd) => label = <<"E", "n", "d">>
                     /\ type = "endNode" => label = <<"E", "n", "d">>
                     /\ type = "decisionNode" =>
                           label = <<"D", "e", "c", "i", "s", "i", "o", "n", "?">>
                     /\ type = "connectorNode" => label = <<Bullet>>
                     /\ type \notin {"startNode", "endNode", "processNode",
                                     "decisionNode", "connectorNode"} =>
                           label = <<"N", "o", "d", "e">>

\* C17 witness: a node of type startNode with data.nodeType 'end' and no
\* label resolved to 'End'.
C17_Witness ==
    /\ converted
    /\ nodes[1].type = "startNode"
    /\ nodes[1].data = [nodeType |-> "end"]
    /\ nodeTrace[1].nodeLabel = TxtEnd

\* what a call leaves holds nothing of the calls before it: the ids mapped
\* and the definitions collected are those of the nodes of this call, and
\* the warnings are those of this graph
C18_NothingKept ==
    /\ converted =>
          /\ DOMAIN nodeIdMap = NodeIds
          /\ Range(nodeDefinitions) = {C13_Line(i) : i \in 1..Len(nodes)}
          /\ {LineOf(NodeLines[k]) : k \in 1..Len(NodeLines)}
                 = {C13_Line(i) : i \in 1..Len(nodes)}
    /\ validated =>
          validation.warnings =
              (IF nodes = <<>> THEN <<TxtFlowchartIsEmpty>> ELSE <<>>)
              \o (IF C9_Disconnected > 0
                  THEN <<NumberToString(C9_Disconnected) \o TxtDisconnected>>
                  ELSE <<>>)

\* C18: a call of convertToMermaid or of validateFlowchartForMermaid leaves
\* the node sequence, the edge sequence, every node's id, type and data,
\* the metadata and the options as they were, and nothing of a call is
\* kept for the calls after it.
C18_InputsUnchanged ==
    /\ [][(Convert \/ Validate) =>
              /\ nodes' = nodes /\ edges' = edges
              /\ \A i \in 1..Len(nodes) :
                    /\ nodes'[i].id = nodes[i].id
                    /\ nodes'[i].type = nodes[i].type
                    /\ nodes'[i].data = nodes[i].data
              /\ metadata' = metadata /\ options' = options]_vars
    /\ []C18_NothingKept

\* C18 witness: both functions were called on the node b alone after
\* convertToMermaid was called on the nodes a and b with an edge.
C18_Witness ==
    /\ converted /\ validated
    /\ earlier.called /\ earlier.othersSince
    /\ Len(earlier.nodes) = 2 /\ Len(earlier.edges) = 1
    /\ Len(nodes) = 1 /\ nodes[1].id = IdB /\ edges = <<>>
    /\ Len(nodeDefinitions) = 1
    /\ Len(validation.warnings) = 1

\* C19: in the editor no two nodes of the node list have the same id,
\* after any sequence of drops, new flowcharts from a template, clears,
\* loads of the stored record and deletions.
C19_NodeIdsUnique ==
    \A i, j \in 1..Len(nodes) : nodes[i].id = nodes[j].id => i = j

\* C20: for a non-empty node sequence the blank separator line stands
\* right after the node definition lines exactly when the edge sequence is
\* not empty: with edges that are all dangling the separator is there and
\* no edge line follows it, with no edge there is no separator.
C20_SeparatorIffEdges ==
    (converted /\ nodes # <<>>) =>
        LET separators == {k \in 1..Len(emitted) : emitted[k].sec = "separator"}
            lastNode == 1 + Len(NodeLines)
        IN  /\ emitted[lastNode].sec = "node"
            /\ edges = <<>> => separators = {} /\ Len(emitted) = lastNode
            /\ edges # <<>> =>
                  /\ separators = {lastNode + 1}
                  /\ emitted[lastNode + 1].text = <<"\n">>
                  /\ Len(emitted) = lastNode + 1 + Cardinality(KeptEdges)
                  /\ \A k \in (lastNode + 2)..Len(emitted) : emitted[k].sec = "edge"

\* C20 witness: two nodes and two edges that are both dangling: the
\* separator ends the text.
C20_Witness ==
    /\ converted
    /\ Len(nodes) = 2 /\ Len(edges) = 2 /\ KeptEdges = {}
    /\ SectionsOf(emitted) = <<"header", "node", "node", "separator">>
    /\ HasSuffix(mermaidCode, <<"]", "\n", "\n">>)

\* the lines convertToMermaid emitted: every line ends with a line feed
C21_LinesEmitted == Cardinality({k \in 1..Len(mermaidCode) : mermaidCode[k] = "\n"})

\* C21: the preview returns the text as it is, its length as
\* characterCount, and as lineCount the number of lines convertToMermaid
\* emitted (front matter, header, node, edge, blank, comment and directive
\* lines).
C21_PreviewCounts ==
    (converted /\ preview.code = mermaidCode) =>
        /\ preview.characterCount = Len(mermaidCode)
        /\ preview.lineCount = C21_LinesEmitted

\* the nodes that an edge names, be the edge dangling or a self-loop
C23_Named ==
    {i \in 1..Len(nodes) :
        \E j \in 1..Len(edges) :
            edges[j].source = nodes[i].id \/ edges[j].target = nodes[i].id}

\* C23: validation never reports a dangling edge: there is no error, no
\* warning other than the empty-graph and the disconnected-nodes warning
\* (the labels here are short), and a node that only dangling edges or a
\* self-loop name is counted as connected.
C23_DanglingNotReported ==
    validated =>
        LET ws == validation.warnings
            k == Len(nodes) - Cardinality(C23_Named)
        IN  /\ validation.errors = <<>>
            /\ \A w \in 1..Len(ws) :
                  \/ ws[w] = TxtFlowchartIsEmpty
                  \/ ws[w] = NumberToString(k) \o TxtDisconnected
            /\ \A w \in 1..Len(ws) :
                  HasSuffix(ws[w], TxtDisconnected) => k > 0
            /\ Len(ws) <= 1

\* C23 witness: of the nodes a and b, a is named by a self-loop alone and b
\* by a dangling edge alone: no warning at all.
C23_Witness ==
    /\ validated
    /\ Len(nodes) = 2 /\ nodes[1].id = IdA /\ nodes[2].id = IdB
    /\ edges = <<Edge(IdA, IdA), Edge(IdMissing, IdB)>>
    /\ validation.warnings = <<>>

\* each call so far came before the delay of the call before it had elapsed
C22_Burst ==
    /\ calls # <<>>
    /\ \A k \in 1..(Len(calls) - 1) : calls[k + 1].at < calls[k].due

C22_PendingTimers == {k \in DOMAIN calls : calls[k].timer = "pending"}

C24_NodesWithId(ns, id) == {i \in 1..Len(ns) : ns[i].id = id}
C24_HasNodeType(ns, id, t) ==
    \E i \in C24_NodesWithId(ns, id) :
        "nodeType" \in DOMAIN ns[i].data /\ ns[i].data.nodeType = t

\* rules 1, 2, 4 and 5 on the edge list es beside the nodes ns: no edge
\* from a node to itself, no two edges with the same source and target, no
\* edge leaving a node of nodeType 'end', no edge entering a node of
\* nodeType 'start' from a node that is not of nodeType 'start'
C24_LegalEdges(ns, es) ==
    /\ \A k \in 1..Len(es) : es[k].source # es[k].target
    /\ \A k, l \in 1..Len(es) :
          es[k].source = es[l].source /\ es[k].target = es[l].target => k = l
    /\ \A k \in 1..Len(es) : ~C24_HasNodeType(ns, es[k].source, "end")
    /\ \A k \in 1..Len(es) :
          C24_HasNodeType(ns, es[k].target, "start")
              => \/ C24_HasNodeType(ns, es[k].source, "start")
                 \/ C24_NodesWithId(ns, es[k].source) = {}

\* rule 3: the source and the target of every edge are nodes
C24_EndsAreNodes(ns, es) ==
    \A k \in 1..Len(es) :
        /\ C24_NodesWithId(ns, es[k].source) # {}
        /\ C24_NodesWithId(ns, es[k].target) # {}

\* C24 as stated: after any sequence of drops, connects and deletions the
\* edge list satisfies the five rules.
C24_FiveRules ==
    C24_LegalEdges(nodes, edges) /\ C24_EndsAreNodes(nodes, edges)

\* C24, amended: after every drop, connect, selection and deletion the edge
\* list satisfies rules 1, 2, 4 and 5; and a step that makes the edge list
\* longer appends one edge whose source and target are nodes at that time.
C24_OnlyLegalEdgesAdded ==
    [][/\ C24_LegalEdges(nodes', edges')
       /\ Len(edges') > Len(edges) =>
             /\ SubSeq(edges', 1, Len(edges)) = edges
             /\ Len(edges') = Len(edges) + 1
             /\ C24_EndsAreNodes(nodes', <<edges'[Len(edges')]>>)]_vars

\* C24 witness: a start node and an end node joined by the one edge
\* isValidConnection lets through, from the start node to the end node.
C24_Witness ==
    /\ Len(nodes) = 2
    /\ C24_HasNodeType(nodes, nodes[1].id, "start")
    /\ C24_HasNodeType(nodes, nodes[2].id, "end")
    /\ Len(edges) = 1
    /\ edges[1].source = nodes[1].id /\ edges[1].target = nodes[2].id

C25_SaveCalled == returned.called /\ returned.fn = "saveFlowchartData"

\* C25: the last saveFlowchartData call either returned a record, which is
\* then the stored one, with the existing id and metadata.createdAt when an
\* id was given, and with an id generated at the time of the call and that
\* time as createdAt when none was; or localStorage was unavailable, the
\* text too large or the quota exceeded, and it threw FlowchartStorageError
\* and left what was stored as it was.
C25_SaveStoresOrThrows ==
    C25_SaveCalled =>
        LET r == returned.result
        IN  IF returned.fault = "none"
            THEN /\ ~r.threw
                 /\ storage.present /\ storage.text.json = "object"
                 /\ deserializeFlowchartData(storage.text) = r.data
                 /\ r.data.nodes = returned.nodes
                 /\ IF returned.existingId # NoId
                    THEN /\ r.data.id = returned.existingId
                         /\ r.data.createdAt = EditorMetadata.createdAt
                    ELSE /\ \E random \in RandomParts :
                               r.data.id = generateId(returned.at, random)
                         /\ r.data.createdAt = DateAt(returned.at)
            ELSE /\ r.threw
                 /\ r.error = "FlowchartStorageError"
                 /\ storage = returned.before

\* C25 witness: a save with an existing id, made after the metadata's
\* createdAt, has stored its record, and the next save fails on the quota.
C25_Witness ==
    /\ C25_SaveCalled
    /\ returned.fault = "quota"
    /\ returned.at > 0
    /\ storage.present /\ storage.text.json = "object"
    /\ "id" \in DOMAIN storage.text.value
    /\ storage.text.value.id \in ExistingIds
    /\ storage.text.value.updatedAt = toISOString(DateAt(returned.at))
    /\ storage.text.value.createdAt = toISOString(EditorMetadata.createdAt)

C26_LoadCalled == returned.called /\ returned.fn = "loadFlowchartData"

\* C26: the last loadFlowchartData call returned null when localStorage
\* was unavailable or held no record; and when it threw, for text that does
\* not parse or a record without id, version, nodes or edges, it threw
\* FlowchartStorageError and the record is gone, so that a load now returns
\* null.
C26_CorruptedIsCleared ==
    C26_LoadCalled =>
        LET r == returned.result
        IN  /\ ~returned.available \/ ~returned.before.present
                => r.outcome = "null"
            /\ r.outcome = "threw" =>
                  /\ r.error = "FlowchartStorageError"
                  /\ ~storage.present
                  /\ loadFlowchartData(storage, TRUE).outcome = "null"

\* the editor and the storage as clearFlowchartHandler leaves them
C27_Cleared ==
    /\ nodes = <<>> /\ edges = <<>>
    /\ nodeId = Finite(0)
    /\ currentFlowchartId = NoId
    /\ saveStatus = "saved"
    /\ ~storage.present

\* C27: once the flowchart is cleared, no step that leaves the graph of the
\* editor as it is brings a record into storage: a timer set before the
\* clear does not write its graph back.
C27_ClearWins ==
    [][C27_Cleared /\ UNCHANGED <<nodes, edges>> => ~storage'.present]_vars

\* the items of the sequence that are not selected, in their order
C28_NotSelected(items) == SelectSeq(items, LAMBDA item : ~item.selected)

\* C28: a step that removes a node or an edge removes the selected nodes
\* and the selected edges and nothing else: the nodes and edges that were
\* not selected all stay, in their order, also the edges at a removed node.
C28_ExactlySelectedRemoved ==
    [][Len(nodes') < Len(nodes) \/ Len(edges') < Len(edges) =>
          /\ nodes' = C28_NotSelected(nodes)
          /\ edges' = C28_NotSelected(edges)]_vars

\* C28 witness: the one node left is not selected, and an edge that was
\* not selected is left with its target removed.
C28_Witness ==
    /\ Len(nodes) = 1 /\ ~nodes[1].selected
    /\ Len(edges) = 1 /\ ~edges[1].selected
    /\ edges[1].source = nodes[1].id
    /\ edges[1].target # nodes[1].id

\* C29: after the last edit the autosave comes to rest: from some moment on
\* no timer is pending, so that no further write is made, and saveStatus is
\* 'saved' for good.
C29_Quiesces ==
    <>[](saveStatus = "saved" /\ ~autoSaveTimeout.pending)

\* C29 witness: the graph is not empty, its record is stored under the id
\* the first save made, the editor knows that id, no timer is pending and
\* saveStatus is 'saved'.
C29_Witness ==
    /\ nodes # <<>>
    /\ saveStatus = "saved"
    /\ ~autoSaveTimeout.pending
    /\ currentFlowchartId # NoId
    /\ storage.present
    /\ storage.text.value.id = currentFlowchartId
    /\ storage.text.value.nodes = nodes

\* C30: a call whose timer a later call found pending makes no write, and
\* its promise is pending in every state after, also once the later call
\* has written: it is neither resolved nor rejected.  A promise that has
\* settled is that of a call no later call superseded.
C30_SupersededNeverSettles ==
    \A k \in DOMAIN calls :
        calls[k].superseded =>
            /\ calls[k].promise = "pending"
            /\ calls[k].timer = "cleared"
            /\ \A w \in DOMAIN writes : writes[w].call # k

\* C30 witness: the second call superseded the first and has written, its
\* promise is resolved, that of the first is still pending.
C30_Witness ==
    /\ Len(calls) = 2
    /\ calls[1].superseded /\ calls[1].promise = "pending"
    /\ calls[2].promise = "resolved"
    /\ Len(writes) = 1 /\ writes[1].call = 2
    /\ now > calls[1].due

=============================================================================
